---- MODULE Spec2Model ----
(***************************************************************************)
(* pprof-format: the varint codec, the string table, the eight schema      *)
(* message types and the generic decode loop, modelled from                *)
(* src/src/index.test.ts (the TypeScript implementation, lines 366-1467).  *)
(*                                                                         *)
(* Representation.  A JavaScript Numeric (number | bigint) is a record     *)
(*   [t |-> "number" | "bigint" | "undefined", neg |-> BOOLEAN,            *)
(*    bits |-> the set of bit positions set in the magnitude]              *)
(* because the values of interest need 64 bits.  A 32-bit unsigned word    *)
(* (the hi / lo halves of long()) is the set of its set bit positions,     *)
(* a subset of 0..31.  Bytes are integers 0..255, buffers are sequences    *)
(* of bytes (index i of the code is element i+1 of the sequence).          *)
(* Strings are sequences of code points.                                   *)
(***************************************************************************)
EXTENDS Integers, Sequences, FiniteSets, TLC

VARIABLES
    pc,       \* position of the scenario being run
    number,   \* varint scenario: the Numeric handed to encodeNumber
    nbuf,     \* varint scenario: the bytes encodeNumber wrote
    nval,     \* varint scenario: the Numeric decodeNumber returned
    table,    \* string table scenario: the StringTable instance
    arg,      \* string table scenario: the argument of the last call
    ret,      \* string table scenario: the value the last call returned
    kind,     \* message scenario: the class of the message
    data,     \* message scenario: the input record given to the constructor
    msg,      \* message scenario: the constructed instance
    written,  \* message scenario: the offset _encodeToBuffer returned
    raw,      \* message scenario: the fields of a message received from outside
    wire,     \* message scenario: the bytes encode() returned / decode() reads
    copy,     \* message scenario: the result of decode()
    heap,     \* sharing scenario: the objects instances refer to, by cell
    first,    \* sharing scenario: the Profile constructed first
    second    \* sharing scenario: the Profile constructed second

vars ==
    <<pc, number, nbuf, nval, table, arg, ret, kind, data, msg, written, raw, wire, copy,
      heap, first, second>>

(***************************************************************************)
(* Bit-level helpers: JavaScript's 32-bit operators on words.              *)
(***************************************************************************)
WordBits == 0..31

RECURSIVE BitsToInt(_)
BitsToInt(S) ==
    IF S = {} THEN 0
    ELSE LET i == CHOOSE x \in S : TRUE IN 2^i + BitsToInt(S \ {i})

IntToBits(n) == {i \in 0..30 : (n \div 2^i) % 2 = 1}

\* w >>> n
Shr(w, n) == {i - n : i \in {j \in w : j >= n}}
\* (w << n) >>> 0
Shl(w, n) == {i + n : i \in {j \in w : j + n <= 31}}
\* ~w >>> 0
Not32(w) == WordBits \ w
\* w < 2^k
Below(w, k) == \A i \in w : i < k
\* w & 127 as a byte value
Low7(w) == BitsToInt({i \in w : i < 7})
\* ++w on a 32-bit word; the second component tells that the result exceeds lowMax
Inc32(w) ==
    IF w = WordBits THEN <<{}, TRUE>>
    ELSE LET k == CHOOSE i \in WordBits : i \notin w /\ \A j \in 0..(i-1) : j \in w
         IN <<{i \in w : i > k} \cup {k}, FALSE>>

\* buffer[i] of a Uint8Array: 0..255, or -1 for undefined (index out of range)
At(buffer, i) == IF i >= 0 /\ i < Len(buffer) THEN buffer[i + 1] ELSE -1
\* buffer[i] & 0b01111111 (undefined is converted to 0 by the bitwise operator)
And127(b) == IF b < 0 THEN 0 ELSE b % 128
\* buffer.slice(from, to)
Slice(buffer, from, to) ==
    LET f == IF from > Len(buffer) THEN Len(buffer) ELSE from
        t == IF to > Len(buffer) THEN Len(buffer) ELSE to
    IN IF t <= f THEN <<>> ELSE SubSeq(buffer, f + 1, t)
SliceFrom(buffer, from) == Slice(buffer, from, Len(buffer))

(***************************************************************************)
(* Numeric values.                                                         *)
(***************************************************************************)
Num(n) == [t |-> "number", neg |-> FALSE, bits |-> IntToBits(n)]
NumBits(S) == [t |-> "number", neg |-> FALSE, bits |-> S]
Big(S) == [t |-> "bigint", neg |-> FALSE, bits |-> S]
Neg(x) == [x EXCEPT !.neg = TRUE]
Undefined == [t |-> "undefined", neg |-> FALSE, bits |-> {}]
Zero == Num(0)
\* number === 0 || number === 0n
IsZero(x) == x.t # "undefined" /\ x.bits = {}
\* JavaScript truthiness of a Numeric | undefined
Truthy(x) == x.t # "undefined" /\ x.bits # {}
\* x || 0
OrZero(x) == IF Truthy(x) THEN x ELSE Zero
\* numeric equality (268435456n == 268435456)
NumEq(x, y) ==
    /\ x.bits = y.bits /\ (x.bits = {} \/ x.neg = y.neg)
    /\ x.t # "undefined" /\ y.t # "undefined"
\* a Numeric small enough to be used as a length or an index
ToInt(x) == BitsToInt(x.bits)

(***************************************************************************)
(* Private helpers of the codec.                                           *)
(***************************************************************************)
kTypeVarInt == 0
kTypeLengthDelim == 2

\* the number of leading bytes of buffer that have the continuation bit set
Continued(buffer) ==
    IF \A i \in 1..Len(buffer) : buffer[i] >= 128 THEN Len(buffer)
    ELSE (CHOOSE i \in 1..Len(buffer) :
              buffer[i] < 128 /\ \A j \in 1..(i - 1) : buffer[j] >= 128) - 1

\* while (i < buffer.length && buffer[i++] >= 128); return i
countNumberBytes(buffer) ==
    IF Len(buffer) = 0 THEN 0
    ELSE IF Continued(buffer) < Len(buffer) THEN Continued(buffer) + 1 ELSE Len(buffer)

\* the 7 payload bits of byte b, moved to bit position 7 * i
GroupBits(b, i) == {k + 7 * i : k \in IntToBits(And127(b))}

\* value = buffer[0] & 127; while (buffer[i++] >= 128) value |= (buffer[i] & 127) << (7 * i)
\* the body runs once for each leading continuation byte and reads the byte after it
\* (undefined past the end, which the bitwise operators turn into 0)
decodeLoop(buffer) ==
    UNION {GroupBits(At(buffer, i), i) : i \in 0..Continued(buffer)}

decodeBigNumber(buffer) ==
    IF Len(buffer) = 0 THEN Big({})
    ELSE Big(decodeLoop(buffer))

lowBits(x) == {i \in x.bits : i < 32}

highBits(x) == {i - 32 : i \in {j \in x.bits : j >= 32 /\ j < 64}}

\* the two's complement of a word pair: hi is ~hi, inc is ++lo on ~lo with its overflow
\* if (++lo > lowMax) { lo = 0; if (++hi > lowMax) { hi = 0 } }
negate(hi, inc) == IF inc[2] THEN <<Inc32(hi)[1], inc[1]>> ELSE <<hi, inc[1]>>

\* long() incrementing the low word without carrying into the high word
longNoCarry(x) ==
    IF x.neg /\ x.bits # {}
    THEN <<Not32(highBits(x)), Inc32(Not32(lowBits(x)))[1]>>
    ELSE <<highBits(x), lowBits(x)>>

long(x) ==
    IF x.neg /\ x.bits # {}
    THEN negate(Not32(highBits(x)), Inc32(Not32(lowBits(x))))
    ELSE <<highBits(x), lowBits(x)>>

\* decodeNumber accumulating every varint in a 32-bit integer
decodeNumberNative(buffer) ==
    IF Len(buffer) = 0 THEN Zero
    ELSE NumBits({i \in decodeLoop(buffer) : i < 32})

decodeNumber(buffer) ==
    IF countNumberBytes(buffer) > 4 THEN decodeBigNumber(buffer)
    ELSE IF Len(buffer) = 0 THEN Zero
    ELSE NumBits(decodeLoop(buffer))

\* the indices i with (buffer[i] & 128) === 0, where the loop of decodeNumbers pushes
Terminators(buffer) == {i \in 0..(Len(buffer) - 1) : buffer[i + 1] < 128}

\* each value is decoded from buffer.slice(start, i + 1), start being one past the
\* previous terminator
decodeNumbers(buffer) ==
    LET ends == Terminators(buffer)
        nth(k) == CHOOSE e \in ends : Cardinality({x \in ends : x < e}) = k - 1
        startOf(e) == IF \E x \in ends : x < e
                      THEN (CHOOSE x \in ends : x < e /\ \A y \in ends : y < e => y <= x) + 1
                      ELSE 0
    IN [k \in 1..Cardinality(ends) |-> decodeNumber(Slice(buffer, startOf(nth(k)), nth(k) + 1))]

push(v, list) == Append(list, v)

\* the indices at which a function of the varint codec reads its buffer
\*   countNumberBytes: while (i < buffer.length && buffer[i++] >= 128)
\*   decodeBigNumber, and the same loop of decodeNumber: buffer[0], then
\*       while (buffer[i++] >= 128) { ... buffer[i] ... }, not at all for an empty buffer
\*   decodeNumber: countNumberBytes, then one of the two loops
\*   decodeNumbers: buffer[i] for every i < buffer.length, and decodeNumber on each slice
\*   getValue, varint branch: buffer[i] for i < buffer.length up to the first byte
\*       without the continuation bit
RECURSIVE Reads(_, _)
Reads(function, buffer) ==
    CASE function \in {"countNumberBytes", "getValue"} ->
            {i \in 0..(Len(buffer) - 1) : i <= Continued(buffer)}
      [] function = "decodeBigNumber" ->
            IF Len(buffer) = 0 THEN {} ELSE 0..Continued(buffer)
      [] function = "decodeNumber" ->
            Reads("countNumberBytes", buffer) \cup Reads("decodeBigNumber", buffer)
      [] function = "decodeNumbers" ->
            (0..(Len(buffer) - 1))
            \cup UNION {{se[1] + i : i \in Reads("decodeNumber", Slice(buffer, se[1], se[2] + 1))} :
                        se \in {x \in (0..(Len(buffer) - 1)) \X Terminators(buffer) :
                                  /\ x[2] >= x[1]
                                  /\ x[1] = 0 \/ (x[1] - 1) \in Terminators(buffer)
                                  /\ \A u \in Terminators(buffer) : u >= x[1] => u >= x[2]}}

\* the cascade of measureNumber on a = lo, b = (lo >>> 28 | hi << 4) >>> 0, c = hi >>> 24
measureParts(a, b, c) ==
    IF c # {} THEN (IF Below(c, 7) THEN 9 ELSE 10)
    ELSE IF b # {}
         THEN IF Below(b, 14) THEN (IF Below(b, 7) THEN 5 ELSE 6)
              ELSE (IF Below(b, 21) THEN 7 ELSE 8)
         ELSE IF Below(a, 14) THEN (IF Below(a, 7) THEN 1 ELSE 2)
              ELSE (IF Below(a, 21) THEN 3 ELSE 4)

\* hl: the pair [hi, lo] that long(number) returned
measureLong(hl) == measureParts(hl[2], Shr(hl[2], 28) \cup Shl(hl[1], 4), Shr(hl[1], 24))

measureNumber(x) == IF IsZero(x) THEN 0 ELSE measureLong(long(x))

\* the bytes the two loops of encodeNumber write for the word pair (hi, lo)
RECURSIVE encodeLoop(_, _)
encodeLoop(hi, lo) ==
    IF hi # {}
    THEN <<Low7(lo) + 128>> \o encodeLoop(Shr(hi, 7), Shr(lo, 7) \cup Shl(hi, 25))
    ELSE IF ~Below(lo, 7)
         THEN <<Low7(lo) + 128>> \o encodeLoop(hi, Shr(lo, 7))
         ELSE <<Low7(lo)>>

\* encodeNumber without its first loop: the high word is never written
encodeLongLow(hl) == encodeLoop({}, hl[2])

encodeLong(hl) == encodeLoop(hl[1], hl[2])

\* the bytes encodeNumber stores at consecutive offsets
encodeNumberBytes(x) == IF IsZero(x) THEN <<0>> ELSE encodeLong(long(x))


(***************************************************************************)
(* Uint8Array destination: the buffer, the running offset and whether a    *)
(* RangeError was thrown.  An indexed store past the end of a typed array  *)
(* is silently dropped; TypedArray.prototype.set past the end throws.      *)
(***************************************************************************)
RECURSIVE Zeros(_)
Zeros(n) ==
    IF n = 0 THEN <<>>
    ELSE IF n % 2 = 0 THEN LET h == Zeros(n \div 2) IN h \o h
    ELSE <<0>> \o Zeros(n - 1)

\* new Uint8Array(n), to be written from offset 0
NewBuffer(n) == [buf |-> Zeros(n), off |-> 0, err |-> FALSE]

\* buf with the bytes of source stored from index offset on, stores past the end dropped
Store(buf, offset, source) ==
    IF offset >= Len(buf) THEN buf
    ELSE LET room == Len(buf) - offset
             kept == IF Len(source) > room THEN SubSeq(source, 1, room) ELSE source
         IN SubSeq(buf, 1, offset) \o kept \o SubSeq(buf, offset + Len(kept) + 1, Len(buf))

\* buffer[offset++] = b
Put(st, b) ==
    IF st.err THEN st
    ELSE [buf |-> Store(st.buf, st.off, <<b>>), off |-> st.off + 1, err |-> FALSE]

PutAll(st, bytes) ==
    IF st.err THEN st
    ELSE [buf |-> Store(st.buf, st.off, bytes), off |-> st.off + Len(bytes), err |-> FALSE]

\* buffer.set(source, offset): RangeError when source does not fit at offset
BufferSet(st, source, offset) ==
    IF st.err THEN st
    ELSE IF offset + Len(source) > Len(st.buf) THEN [st EXCEPT !.err = TRUE]
    ELSE [st EXCEPT !.buf = Store(st.buf, offset, source)]

\* buffer.set(source, offset) at the running offset
SetAtOffset(st, source) == BufferSet(st, source, st.off)

encodeNumber(st, x) == PutAll(st, encodeNumberBytes(x))

(***************************************************************************)
(* UTF-8 (code points below 2048: one- and two-byte forms).                *)
(***************************************************************************)
RECURSIVE toUtf8Loop(_)
toUtf8Loop(string) ==
    IF string = <<>> THEN <<>>
    ELSE LET cp == Head(string)
         IN (IF cp < 128 THEN <<cp>> ELSE <<192 + (cp \div 64), 128 + (cp % 64)>>)
            \o toUtf8Loop(Tail(string))

\* an ASCII string is its own encoding
toUtf8(string) ==
    IF \A i \in 1..Len(string) : string[i] < 128 THEN string ELSE toUtf8Loop(string)

ReplacementChar == 65533

RECURSIVE fromUtf8Loop(_)
fromUtf8Loop(bytes) ==
    IF bytes = <<>> THEN <<>>
    ELSE LET b == Head(bytes)
             two == b >= 194 /\ b < 224 /\ Len(bytes) >= 2
                    /\ bytes[2] >= 128 /\ bytes[2] < 192
         IN IF b < 128 THEN <<b>> \o fromUtf8Loop(Tail(bytes))
            ELSE IF two
                 THEN <<(b - 192) * 64 + (bytes[2] - 128)>> \o fromUtf8Loop(Tail(Tail(bytes)))
                 ELSE <<ReplacementChar>> \o fromUtf8Loop(Tail(bytes))

\* new TextDecoder().decode(bytes); ASCII bytes decode to themselves
fromUtf8(bytes) ==
    IF \A i \in 1..Len(bytes) : bytes[i] < 128 THEN bytes ELSE fromUtf8Loop(bytes)

(***************************************************************************)
(* StringTable: the array of strings and the two private maps, each map    *)
(* a sequence of [k, v] entries in insertion order.                        *)
(***************************************************************************)
MapHas(m, k) == \E i \in 1..Len(m) : m[i].k = k
MapGet(m, k) == m[CHOOSE i \in 1..Len(m) : m[i].k = k].v
MapSet(m, k, v) ==
    IF MapHas(m, k)
    THEN LET i == CHOOSE j \in 1..Len(m) : m[j].k = k
         IN SubSeq(m, 1, i - 1) \o <<[k |-> k, v |-> v]>> \o SubSeq(m, i + 1, Len(m))
    ELSE Append(m, [k |-> k, v |-> v])

StringTable_new == [strings |-> << <<>> >>, positions |-> <<>>, encodings |-> <<>>]

\* _encodeString once stringBuffer = toUtf8(string) is known: the state of the
\* destination buffer when it returns (err when buffer.set threw)
StringTable_encodeBuffer(stringBuffer) ==
    SetAtOffset(encodeNumber(Put(NewBuffer(1 + Len(stringBuffer)
                                           + measureNumber(Num(Len(stringBuffer)))), 50),
                             Num(Len(stringBuffer))),
                stringBuffer)

StringTable_encodeString(string) == StringTable_encodeBuffer(toUtf8(string))

\* table.#positions.set(value, table.push(value) - 1); table.#encodings.set(value, enc)
StringTable_add(tbl, value, enc) ==
    [strings |-> Append(tbl.strings, value),
     positions |-> MapSet(tbl.positions, value, Len(tbl.strings)),
     encodings |-> MapSet(tbl.encodings, value, enc)]

\* the loop of from(); r is the table so far, with err set once _encodeString threw
RECURSIVE StringTable_fromLoop(_, _)
StringTable_fromStep(r, value, enc) ==
    IF enc.err THEN [err |-> TRUE, tbl |-> r.tbl]
    ELSE [err |-> FALSE, tbl |-> StringTable_add(r.tbl, value, enc.buf)]

StringTable_fromLoop(r, values) ==
    IF r.err \/ values = <<>> THEN r
    ELSE StringTable_fromLoop(
             StringTable_fromStep(r, Head(values), StringTable_encodeString(Head(values))),
             Tail(values))

\* values: [isTable |-> TRUE, tbl |-> a StringTable] or [isTable |-> FALSE, arr |-> strings]
StringTable_from(values) ==
    IF values.isTable THEN [err |-> FALSE, tbl |-> values.tbl]
    ELSE StringTable_fromLoop([err |-> FALSE, tbl |-> StringTable_new], values.arr)

\* the stringTable member of a ProfileInput: undefined, a StringTable, or an array
NoTableIn == [def |-> FALSE, isTable |-> FALSE, tbl |-> StringTable_new, arr |-> <<>>]
TableIn(tbl) == [def |-> TRUE, isTable |-> TRUE, tbl |-> tbl, arr |-> <<>>]
ArrayIn(arr) == [def |-> TRUE, isTable |-> FALSE, tbl |-> StringTable_new, arr |-> arr]

RECURSIVE SumLen(_)
SumLen(m) == IF m = <<>> THEN 0 ELSE Len(Head(m).v) + SumLen(Tail(m))

StringTable_encodedLength(tbl) == SumLen(tbl.encodings)

\* buffer.set(encoded, offset); offset += encoded.length
SetAndAdvance(st, encoded) ==
    IF st.err \/ st.off + Len(encoded) > Len(st.buf) THEN [st EXCEPT !.err = TRUE]
    ELSE [buf |-> Store(st.buf, st.off, encoded), off |-> st.off + Len(encoded),
          err |-> FALSE]

RECURSIVE StringTable_encodeLoop(_, _)
StringTable_encodeLoop(m, st) ==
    IF m = <<>> \/ st.err THEN st
    ELSE StringTable_encodeLoop(Tail(m), SetAndAdvance(st, Head(m).v))

StringTable_encode(tbl, st) == StringTable_encodeLoop(tbl.encodings, st)

\* string: [num |-> FALSE, s |-> code points] or [num |-> TRUE, n |-> a number]
StringTable_dedup(tbl, string) ==
    IF string.num
    THEN [tbl |-> tbl, ret |-> string.n]
    ELSE IF string.s = <<>> THEN [tbl |-> tbl, ret |-> 0]
    ELSE IF ~MapHas(tbl.positions, string.s)
         THEN [tbl |-> StringTable_add(tbl, string.s, StringTable_encodeString(string.s).buf),
               ret |-> Len(tbl.strings)]
         ELSE [tbl |-> tbl, ret |-> MapGet(tbl.positions, string.s)]

StrArg(s) == [num |-> FALSE, s |-> s, n |-> 0]
NumArg(n) == [num |-> TRUE, s |-> <<>>, n |-> n]

\* list.concat(value) on a StringTable: the species constructor makes a fresh
\* StringTable (empty private maps) that receives the elements of list and value
StringTable_concat(tbl, value) ==
    [strings |-> Append(tbl.strings, value), positions |-> <<>>, encodings |-> <<>>]


(***************************************************************************)
(* Measuring.  A message instance is a record with a cls field naming its  *)
(* class.  Where the code reads the `length` property of a value of static *)
(* type T, the caller passes what T's length getter returns for the value. *)
(***************************************************************************)
IsNumeric(v) == "t" \in DOMAIN v

\* n || 1
OrOne(n) == IF n = 0 THEN 1 ELSE n

\* length is the value of the length property of v, read when v is not a number
measureValue(v, length) ==
    IF IsNumeric(v)
    THEN IF v.t = "undefined" THEN 0 ELSE OrOne(measureNumber(v))
    ELSE length

RECURSIVE measureArray(_)
measureArray(list) ==
    IF list = <<>> THEN 0
    ELSE measureValue(Head(list), 0) + measureArray(Tail(list))

\* length ? 1 + length : 0
TagAnd(length) == IF length # 0 THEN 1 + length ELSE 0
\* length ? 2 + length : 0
TagPrefixAnd(length) == IF length # 0 THEN 2 + length ELSE 0

\* a number field that would also be written when it holds its default
measureNumberFieldAlways(x) == 1 + measureNumber(x)

measureNumberField(x) == TagAnd(measureNumber(x))

RECURSIVE measureNumberArrayTotal(_)
measureNumberArrayTotal(values) ==
    IF values = <<>> THEN 0
    ELSE OrOne(measureNumber(Head(values))) + measureNumberArrayTotal(Tail(values))

measureNumberArrayField(values) == TagPrefixAnd(measureNumberArrayTotal(values))

measureLengthDelimField(v, length) == TagPrefixAnd(measureValue(v, length))

\* lengths[i] is the value of the length property of values[i]
RECURSIVE measureLengthDelimArrayField(_, _)
measureLengthDelimArrayField(values, lengths) ==
    IF values = <<>> THEN 0
    ELSE measureLengthDelimField(Head(values), Head(lengths))
         + measureLengthDelimArrayField(Tail(values), Tail(lengths))

(***************************************************************************)
(* Field writers: the statement patterns of the _encodeToBuffer methods,   *)
(* each as the bytes it stores at consecutive offsets.                     *)
(***************************************************************************)
\* if (this.f) { buffer[offset++] = tag; offset = encodeNumber(buffer, offset, this.f) }
EncodeNumberField(tag, x) ==
    IF Truthy(x) THEN <<tag>> \o encodeNumberBytes(x) ELSE <<>>

\* if (this.f) { buffer[offset++] = tag; offset = encodeNumber(buffer, offset, 1) }
EncodeBoolField(tag, b) ==
    IF b THEN <<tag>> \o encodeNumberBytes(Num(1)) ELSE <<>>

RECURSIVE EncodeNumbers(_)
EncodeNumbers(list) ==
    IF list = <<>> THEN <<>> ELSE encodeNumberBytes(Head(list)) \o EncodeNumbers(Tail(list))

\* if (this.f.length) { tag; encodeNumber(measureArray(this.f)); each element }
EncodePackedField(tag, list) ==
    IF Len(list) # 0
    THEN <<tag>> \o encodeNumberBytes(Num(measureArray(list))) \o EncodeNumbers(list)
    ELSE <<>>

\* buffer[offset++] = tag; encodeNumber(m.length); m._encodeToBuffer(buffer, offset)
\* length being m.length and encoding the bytes m._encodeToBuffer stores
EncodeMessageField(tag, length, encoding) ==
    <<tag>> \o encodeNumberBytes(Num(length)) \o encoding

\* for (const m of this.f) { ... }
RECURSIVE EncodeMessageArrayField(_, _, _)
EncodeMessageArrayField(tag, lengths, encodings) ==
    IF lengths = <<>> THEN <<>>
    ELSE EncodeMessageField(tag, Head(lengths), Head(encodings))
         \o EncodeMessageArrayField(tag, Tail(lengths), Tail(encodings))


(***************************************************************************)
(* The generic decode loop.                                                *)
(***************************************************************************)
\* Number(size) used as a slice bound: any value of 2^24 or more is past every buffer
SizeToInt(x) == IF \E i \in x.bits : i >= 24 THEN 2^24 ELSE BitsToInt(x.bits)

\* for (i = 0; i < buffer.length; i++) if (!(buffer[i] & 128)) return slice(0, i + 1)
firstTerminator(buffer) == countNumberBytes(buffer)

\* getValue reading every other wire kind as a varint instead of throwing
getValueLenient(mode, buffer) ==
    IF mode = kTypeLengthDelim
    THEN [err |-> FALSE,
          value |-> Slice(buffer, countNumberBytes(buffer),
                          SizeToInt(decodeNumber(buffer)) + 1),
          offset |-> countNumberBytes(buffer)]
    ELSE [err |-> FALSE, value |-> Slice(buffer, 0, firstTerminator(buffer)), offset |-> 0]

getValue(mode, buffer) ==
    IF mode = kTypeVarInt
    THEN [err |-> FALSE, value |-> Slice(buffer, 0, firstTerminator(buffer)), offset |-> 0]
    ELSE IF mode = kTypeLengthDelim
    THEN [err |-> FALSE,
          value |-> Slice(buffer, countNumberBytes(buffer),
                          SizeToInt(decodeNumber(buffer)) + 1),
          offset |-> countNumberBytes(buffer)]
    ELSE [err |-> TRUE, value |-> <<>>, offset |-> 0]

\* one iteration of the while loop of decode(): where the tag byte is (at), the field
\* number and wire kind read from it, what getValue returned (err when it threw), and
\* the index the loop continues from
\* the loop without its index++ after the tag byte
decodeStepInPlace(at, field, mode, gv) ==
    [at |-> at, field |-> field, mode |-> mode, value |-> gv.value, offset |-> gv.offset,
     next |-> at + Len(gv.value) + gv.offset, err |-> gv.err]

decodeStep(at, field, mode, gv) ==
    [at |-> at, field |-> field, mode |-> mode, value |-> gv.value, offset |-> gv.offset,
     next |-> at + 1 + Len(gv.value) + gv.offset, err |-> gv.err]

RECURSIVE decodeSteps(_, _)
decodeFrom(buffer, step) ==
    IF step.err THEN <<step>> ELSE <<step>> \o decodeSteps(buffer, step.next)

\* the iterations of the loop, in order, up to the end of the buffer or a throw
decodeSteps(buffer, index) ==
    IF index >= Len(buffer) THEN <<>>
    ELSE decodeFrom(buffer,
             decodeStep(index, At(buffer, index) \div 8, At(buffer, index) % 8,
                        getValue(At(buffer, index) % 8, SliceFrom(buffer, index + 1))))


Ok(d) == [err |-> FALSE, data |-> d]
Threw(d) == [err |-> TRUE, data |-> d]

\* the decoder calls of the loop of decode(), in order, until one throws; r is the
\* data object so far, with err set once getValue or a decoder threw
RECURSIVE applySteps(_, _, _)
applySteps(decoder(_, _, _), r, steps) ==
    IF r.err \/ steps = <<>> THEN r
    ELSE IF Head(steps).err THEN Threw(r.data)
    ELSE applySteps(decoder, decoder(r.data, Head(steps).field, Head(steps).value),
                    Tail(steps))

\* decode(buffer, decoder), empty being the object the loop starts from
decode(buffer, decoder(_, _, _), empty) ==
    applySteps(decoder, Ok(empty), decodeSteps(buffer, 0))

\* new T(r.data) on what decode() returned, unless it threw
Constructed(new(_), r) == IF r.err THEN r ELSE Ok(new(r.data))

\* data.f = push(T.decode(buffer), data.f), r being what T.decode(buffer) returned
Pushed(d, f, r) == IF r.err THEN Threw(d) ELSE Ok([d EXCEPT ![f] = push(r.data, d[f])])

(***************************************************************************)
(* ValueType                                                               *)
(***************************************************************************)
ValueType_empty == [cls |-> "ValueType", type |-> Undefined, unit |-> Undefined]

ValueType_new(d) == [cls |-> "ValueType", type |-> OrZero(d.type), unit |-> OrZero(d.unit)]

ValueType_length(m) == measureNumberField(m.type) + measureNumberField(m.unit)

ValueType_encodeToBuffer(m) ==
    EncodeNumberField(8, m.type) \o EncodeNumberField(16, m.unit)

ValueType_decodeValue(d, field, buffer) ==
    CASE field = 1 -> Ok([d EXCEPT !.type = decodeNumber(buffer)])
      [] field = 2 -> Ok([d EXCEPT !.unit = decodeNumber(buffer)])
      [] OTHER -> Ok(d)

\* static decode(buffer): new this(decode(buffer, this.decodeValue))
ValueType_decode(buffer) ==
    Constructed(ValueType_new, decode(buffer, ValueType_decodeValue, ValueType_empty))

(***************************************************************************)
(* Label                                                                   *)
(***************************************************************************)
Label_empty ==
    [cls |-> "Label", key |-> Undefined, str |-> Undefined, num |-> Undefined,
     numUnit |-> Undefined]

Label_new(d) ==
    [cls |-> "Label", key |-> OrZero(d.key), str |-> OrZero(d.str), num |-> OrZero(d.num),
     numUnit |-> OrZero(d.numUnit)]

Label_length(m) ==
    measureNumberField(m.key) + measureNumberField(m.str) + measureNumberField(m.num)
    + measureNumberField(m.numUnit)

Label_encodeToBuffer(m) ==
    EncodeNumberField(8, m.key) \o EncodeNumberField(16, m.str)
    \o EncodeNumberField(24, m.num) \o EncodeNumberField(32, m.numUnit)

Label_decodeValue(d, field, buffer) ==
    CASE field = 1 -> Ok([d EXCEPT !.key = decodeNumber(buffer)])
      [] field = 2 -> Ok([d EXCEPT !.str = decodeNumber(buffer)])
      [] field = 3 -> Ok([d EXCEPT !.num = decodeNumber(buffer)])
      [] field = 4 -> Ok([d EXCEPT !.numUnit = decodeNumber(buffer)])
      [] OTHER -> Ok(d)

\* static decode(buffer): new this(decode(buffer, this.decodeValue))
Label_decode(buffer) ==
    Constructed(Label_new, decode(buffer, Label_decodeValue, Label_empty))

(***************************************************************************)
(* Sample                                                                  *)
(***************************************************************************)

Sample_empty == [cls |-> "Sample", locationId |-> <<>>, value |-> <<>>, label |-> <<>>]

Sample_new(d) ==
    [cls |-> "Sample", locationId |-> d.locationId, value |-> d.value,
     label |-> [i \in DOMAIN d.label |-> Label_new(d.label[i])]]

Sample_length(m) ==
    measureNumberArrayField(m.locationId) + measureNumberArrayField(m.value)
    + measureLengthDelimArrayField(m.label,
          [i \in DOMAIN m.label |-> Label_length(m.label[i])])

Sample_encodeToBuffer(m) ==
    EncodePackedField(10, m.locationId) \o EncodePackedField(18, m.value)
    \o EncodeMessageArrayField(26,
           [i \in DOMAIN m.label |-> Label_length(m.label[i])],
           [i \in DOMAIN m.label |-> Label_encodeToBuffer(m.label[i])])

Sample_decodeValue(d, field, buffer) ==
    CASE field = 1 -> Ok([d EXCEPT !.locationId = decodeNumbers(buffer)])
      [] field = 2 -> Ok([d EXCEPT !.value = decodeNumbers(buffer)])
      [] field = 3 -> Pushed(d, "label", Label_decode(buffer))
      [] OTHER -> Ok(d)

\* static decode(buffer): new this(decode(buffer, this.decodeValue))
Sample_decode(buffer) ==
    Constructed(Sample_new, decode(buffer, Sample_decodeValue, Sample_empty))

(***************************************************************************)
(* Mapping                                                                 *)
(***************************************************************************)
Mapping_empty ==
    [cls |-> "Mapping", id |-> Undefined, memoryStart |-> Undefined,
     memoryLimit |-> Undefined, fileOffset |-> Undefined, filename |-> Undefined,
     buildId |-> Undefined, hasFunctions |-> FALSE, hasFilenames |-> FALSE,
     hasLineNumbers |-> FALSE, hasInlineFrames |-> FALSE]

Mapping_new(d) ==
    [cls |-> "Mapping", id |-> OrZero(d.id), memoryStart |-> OrZero(d.memoryStart),
     memoryLimit |-> OrZero(d.memoryLimit), fileOffset |-> OrZero(d.fileOffset),
     filename |-> OrZero(d.filename), buildId |-> OrZero(d.buildId),
     hasFunctions |-> d.hasFunctions, hasFilenames |-> d.hasFilenames,
     hasLineNumbers |-> d.hasLineNumbers, hasInlineFrames |-> d.hasInlineFrames]

BoolNum(b) == IF b THEN Num(1) ELSE Zero

Mapping_length(m) ==
    measureNumberField(m.id) + measureNumberField(m.memoryStart)
    + measureNumberField(m.memoryLimit) + measureNumberField(m.fileOffset)
    + measureNumberField(m.filename) + measureNumberField(m.buildId)
    + measureNumberField(BoolNum(m.hasFunctions)) + measureNumberField(BoolNum(m.hasFilenames))
    + measureNumberField(BoolNum(m.hasLineNumbers))
    + measureNumberField(BoolNum(m.hasInlineFrames))

Mapping_encodeToBuffer(m) ==
    EncodeNumberField(8, m.id) \o EncodeNumberField(16, m.memoryStart)
    \o EncodeNumberField(24, m.memoryLimit) \o EncodeNumberField(32, m.fileOffset)
    \o EncodeNumberField(40, m.filename) \o EncodeNumberField(48, m.buildId)
    \o EncodeBoolField(56, m.hasFunctions) \o EncodeBoolField(64, m.hasFilenames)
    \o EncodeBoolField(72, m.hasLineNumbers) \o EncodeBoolField(80, m.hasInlineFrames)

\* !!decodeNumber(buffer)
DecodeBool(buffer) == Truthy(decodeNumber(buffer))

Mapping_decodeValue(d, field, buffer) ==
    CASE field = 1 -> Ok([d EXCEPT !.id = decodeNumber(buffer)])
      [] field = 2 -> Ok([d EXCEPT !.memoryStart = decodeNumber(buffer)])
      [] field = 3 -> Ok([d EXCEPT !.memoryLimit = decodeNumber(buffer)])
      [] field = 4 -> Ok([d EXCEPT !.fileOffset = decodeNumber(buffer)])
      [] field = 5 -> Ok([d EXCEPT !.filename = decodeNumber(buffer)])
      [] field = 6 -> Ok([d EXCEPT !.buildId = decodeNumber(buffer)])
      [] field = 7 -> Ok([d EXCEPT !.hasFunctions = DecodeBool(buffer)])
      [] field = 8 -> Ok([d EXCEPT !.hasFilenames = DecodeBool(buffer)])
      [] field = 9 -> Ok([d EXCEPT !.hasLineNumbers = DecodeBool(buffer)])
      [] field = 10 -> Ok([d EXCEPT !.hasInlineFrames = DecodeBool(buffer)])
      [] OTHER -> Ok(d)

\* static decode(buffer): new this(decode(buffer, this.decodeValue))
Mapping_decode(buffer) ==
    Constructed(Mapping_new, decode(buffer, Mapping_decodeValue, Mapping_empty))

(***************************************************************************)
(* Line                                                                    *)
(***************************************************************************)
Line_empty == [cls |-> "Line", functionId |-> Undefined, line |-> Undefined]

Line_new(d) == [cls |-> "Line", functionId |-> OrZero(d.functionId), line |-> OrZero(d.line)]

Line_length(m) == measureNumberField(m.functionId) + measureNumberField(m.line)

Line_encodeToBuffer(m) ==
    EncodeNumberField(8, m.functionId) \o EncodeNumberField(16, m.line)

Line_decodeValue(d, field, buffer) ==
    CASE field = 1 -> Ok([d EXCEPT !.functionId = decodeNumber(buffer)])
      [] field = 2 -> Ok([d EXCEPT !.line = decodeNumber(buffer)])
      [] OTHER -> Ok(d)

\* static decode(buffer): new this(decode(buffer, this.decodeValue))
Line_decode(buffer) ==
    Constructed(Line_new, decode(buffer, Line_decodeValue, Line_empty))

(***************************************************************************)
(* Location                                                                *)
(***************************************************************************)

Location_empty ==
    [cls |-> "Location", id |-> Undefined, mappingId |-> Undefined, address |-> Undefined,
     line |-> <<>>, isFolded |-> FALSE]

Location_new(d) ==
    [cls |-> "Location", id |-> OrZero(d.id), mappingId |-> OrZero(d.mappingId),
     address |-> OrZero(d.address),
     line |-> [i \in DOMAIN d.line |-> Line_new(d.line[i])], isFolded |-> d.isFolded]

Location_length(m) ==
    measureNumberField(m.id) + measureNumberField(m.mappingId) + measureNumberField(m.address)
    + measureLengthDelimArrayField(m.line,
          [i \in DOMAIN m.line |-> Line_length(m.line[i])])
    + measureNumberField(BoolNum(m.isFolded))

Location_encodeToBuffer(m) ==
    EncodeNumberField(8, m.id) \o EncodeNumberField(16, m.mappingId)
    \o EncodeNumberField(24, m.address)
    \o EncodeMessageArrayField(34,
           [i \in DOMAIN m.line |-> Line_length(m.line[i])],
           [i \in DOMAIN m.line |-> Line_encodeToBuffer(m.line[i])])
    \o EncodeBoolField(40, m.isFolded)

Location_decodeValue(d, field, buffer) ==
    CASE field = 1 -> Ok([d EXCEPT !.id = decodeNumber(buffer)])
      [] field = 2 -> Ok([d EXCEPT !.mappingId = decodeNumber(buffer)])
      [] field = 3 -> Ok([d EXCEPT !.address = decodeNumber(buffer)])
      [] field = 4 -> Pushed(d, "line", Line_decode(buffer))
      [] field = 5 -> Ok([d EXCEPT !.isFolded = DecodeBool(buffer)])
      [] OTHER -> Ok(d)

\* static decode(buffer): new this(decode(buffer, this.decodeValue))
Location_decode(buffer) ==
    Constructed(Location_new, decode(buffer, Location_decodeValue, Location_empty))

(***************************************************************************)
(* Function                                                                *)
(***************************************************************************)
Function_empty ==
    [cls |-> "Function", id |-> Undefined, name |-> Undefined, systemName |-> Undefined,
     filename |-> Undefined, startLine |-> Undefined]

Function_new(d) ==
    [cls |-> "Function", id |-> OrZero(d.id), name |-> OrZero(d.name),
     systemName |-> OrZero(d.systemName), filename |-> OrZero(d.filename),
     startLine |-> OrZero(d.startLine)]

Function_length(m) ==
    measureNumberField(m.id) + measureNumberField(m.name) + measureNumberField(m.systemName)
    + measureNumberField(m.filename) + measureNumberField(m.startLine)

Function_encodeToBuffer(m) ==
    EncodeNumberField(8, m.id) \o EncodeNumberField(16, m.name)
    \o EncodeNumberField(24, m.systemName) \o EncodeNumberField(32, m.filename)
    \o EncodeNumberField(40, m.startLine)

Function_decodeValue(d, field, buffer) ==
    CASE field = 1 -> Ok([d EXCEPT !.id = decodeNumber(buffer)])
      [] field = 2 -> Ok([d EXCEPT !.name = decodeNumber(buffer)])
      [] field = 3 -> Ok([d EXCEPT !.systemName = decodeNumber(buffer)])
      [] field = 4 -> Ok([d EXCEPT !.filename = decodeNumber(buffer)])
      [] field = 5 -> Ok([d EXCEPT !.startLine = decodeNumber(buffer)])
      [] OTHER -> Ok(d)

\* static decode(buffer): new this(decode(buffer, this.decodeValue))
Function_decode(buffer) ==
    Constructed(Function_new, decode(buffer, Function_decodeValue, Function_empty))


(***************************************************************************)
(* Profile                                                                 *)
(***************************************************************************)

\* an optional ValueType: undefined, or the object
NoPeriodType == [def |-> FALSE, v |-> ValueType_empty]
PeriodTypeIn(v) == [def |-> TRUE, v |-> v]

Profile_empty ==
    [cls |-> "Profile", sampleType |-> <<>>, sample |-> <<>>, mapping |-> <<>>,
     location |-> <<>>, function |-> <<>>, stringTable |-> NoTableIn,
     dropFrames |-> Undefined, keepFrames |-> Undefined, timeNanos |-> Undefined,
     durationNanos |-> Undefined, periodType |-> NoPeriodType, period |-> Undefined,
     comment |-> <<>>, defaultSampleType |-> Undefined]

\* the constructor, t being what StringTable.from returned: err when it threw
Profile_with(d, t) ==
    [err |-> t.err,
     data |-> [cls |-> "Profile",
               sampleType |-> [i \in DOMAIN d.sampleType |-> ValueType_new(d.sampleType[i])],
               sample |-> [i \in DOMAIN d.sample |-> Sample_new(d.sample[i])],
               mapping |-> [i \in DOMAIN d.mapping |-> Mapping_new(d.mapping[i])],
               location |-> [i \in DOMAIN d.location |-> Location_new(d.location[i])],
               function |-> [i \in DOMAIN d.function |-> Function_new(d.function[i])],
               stringTable |-> t.tbl,
               dropFrames |-> OrZero(d.dropFrames),
               keepFrames |-> OrZero(d.keepFrames),
               timeNanos |-> OrZero(d.timeNanos),
               durationNanos |-> OrZero(d.durationNanos),
               periodType |-> IF d.periodType.def
                              THEN PeriodTypeIn(ValueType_new(d.periodType.v))
                              ELSE NoPeriodType,
               period |-> OrZero(d.period),
               comment |-> d.comment,
               defaultSampleType |-> OrZero(d.defaultSampleType)]]

\* StringTable.from(data.stringTable || [])
Profile_new(d) ==
    Profile_with(d, StringTable_from(IF d.stringTable.def THEN d.stringTable
                                     ELSE ArrayIn(<<>>)))

Profile_length(m) ==
    measureLengthDelimArrayField(m.sampleType,
          [i \in DOMAIN m.sampleType |-> ValueType_length(m.sampleType[i])])
    + measureLengthDelimArrayField(m.sample,
          [i \in DOMAIN m.sample |-> Sample_length(m.sample[i])])
    + measureLengthDelimArrayField(m.mapping,
          [i \in DOMAIN m.mapping |-> Mapping_length(m.mapping[i])])
    + measureLengthDelimArrayField(m.location,
          [i \in DOMAIN m.location |-> Location_length(m.location[i])])
    + measureLengthDelimArrayField(m.function,
          [i \in DOMAIN m.function |-> Function_length(m.function[i])])
    + StringTable_encodedLength(m.stringTable)
    + measureNumberField(m.dropFrames)
    + measureNumberField(m.keepFrames)
    + measureNumberField(m.timeNanos)
    + measureNumberField(m.durationNanos)
    + (IF m.periodType.def
       THEN measureLengthDelimField(m.periodType.v, ValueType_length(m.periodType.v))
       ELSE measureLengthDelimField(Undefined, 0))
    + measureNumberField(m.period)
    + measureLengthDelimArrayField(m.comment,
          [i \in DOMAIN m.comment |-> 0])
    + measureNumberField(m.defaultSampleType)

\* the fields stored before and after the string table
Profile_head(m) ==
    EncodeMessageArrayField(10,
           [i \in DOMAIN m.sampleType |-> ValueType_length(m.sampleType[i])],
           [i \in DOMAIN m.sampleType |-> ValueType_encodeToBuffer(m.sampleType[i])])
    \o EncodeMessageArrayField(18,
           [i \in DOMAIN m.sample |-> Sample_length(m.sample[i])],
           [i \in DOMAIN m.sample |-> Sample_encodeToBuffer(m.sample[i])])
    \o EncodeMessageArrayField(26,
           [i \in DOMAIN m.mapping |-> Mapping_length(m.mapping[i])],
           [i \in DOMAIN m.mapping |-> Mapping_encodeToBuffer(m.mapping[i])])
    \o EncodeMessageArrayField(34,
           [i \in DOMAIN m.location |-> Location_length(m.location[i])],
           [i \in DOMAIN m.location |-> Location_encodeToBuffer(m.location[i])])
    \o EncodeMessageArrayField(42,
           [i \in DOMAIN m.function |-> Function_length(m.function[i])],
           [i \in DOMAIN m.function |-> Function_encodeToBuffer(m.function[i])])

Profile_tail(m) ==
    EncodeNumberField(56, m.dropFrames) \o EncodeNumberField(64, m.keepFrames)
    \o EncodeNumberField(72, m.timeNanos) \o EncodeNumberField(80, m.durationNanos)
    \o (IF m.periodType.def THEN EncodeMessageField(90, ValueType_length(m.periodType.v),
                                ValueType_encodeToBuffer(m.periodType.v)) ELSE <<>>)
    \o EncodeNumberField(96, m.period) \o EncodePackedField(106, m.comment)
    \o EncodeNumberField(112, m.defaultSampleType)

\* _encodeToBuffer returning after the string table, the fields behind it not written
Profile_encodeToBufferNoTail(m, st) ==
    StringTable_encode(m.stringTable, PutAll(st, Profile_head(m)))

\* st: the destination buffer and offset; the string table is copied with buffer.set
Profile_encodeToBuffer(m, st) ==
    PutAll(StringTable_encode(m.stringTable, PutAll(st, Profile_head(m))), Profile_tail(m))

\* data.stringTable = t, what StringTable.from returned, unless it threw
Profile_setTable(d, t) == IF t.err THEN Threw(d) ELSE Ok([d EXCEPT !.stringTable = TableIn(t.tbl)])

\* case 6: StringTable.from(push(string, data.stringTable)); push gives [string] when
\* there is no table yet, and list.concat(string) otherwise
Profile_decodeString(d, string) ==
    IF d.stringTable.def
    THEN Profile_setTable(d, StringTable_from(
             TableIn(StringTable_concat(d.stringTable.tbl, string))))
    ELSE Profile_setTable(d, StringTable_from(ArrayIn(<<string>>)))

\* data.periodType = ValueType.decode(buffer), r being what it returned
Assigned(d, r) ==
    IF r.err THEN Threw(d) ELSE Ok([d EXCEPT !.periodType = PeriodTypeIn(r.data)])

Profile_decodeValue(d, field, buffer) ==
    CASE field = 1 -> Pushed(d, "sampleType", ValueType_decode(buffer))
      [] field = 2 -> Pushed(d, "sample", Sample_decode(buffer))
      [] field = 3 -> Pushed(d, "mapping", Mapping_decode(buffer))
      [] field = 4 -> Pushed(d, "location", Location_decode(buffer))
      [] field = 5 -> Pushed(d, "function", Function_decode(buffer))
      [] field = 6 -> Profile_decodeString(d, fromUtf8(buffer))
      [] field = 7 -> Ok([d EXCEPT !.dropFrames = decodeNumber(buffer)])
      [] field = 8 -> Ok([d EXCEPT !.keepFrames = decodeNumber(buffer)])
      [] field = 9 -> Ok([d EXCEPT !.timeNanos = decodeNumber(buffer)])
      [] field = 10 -> Ok([d EXCEPT !.durationNanos = decodeNumber(buffer)])
      [] field = 11 -> Assigned(d, ValueType_decode(buffer))
      [] field = 12 -> Ok([d EXCEPT !.period = decodeNumber(buffer)])
      [] field = 13 -> Ok([d EXCEPT !.comment = push(decodeNumber(buffer), d.comment)])
      [] field = 14 -> Ok([d EXCEPT !.defaultSampleType = decodeNumber(buffer)])
      [] OTHER -> Ok(d)

\* static decode(buffer): new this(decode(buffer, this.decodeValue))
Profile_decoded(r) == IF r.err THEN r ELSE Profile_new(r.data)
Profile_decode(buffer) == Profile_decoded(decode(buffer, Profile_decodeValue, Profile_empty))

(***************************************************************************)
(* Dispatch on the class: the getters, methods and static methods.         *)
(***************************************************************************)
Classes ==
    {"ValueType", "Label", "Line", "Mapping", "Location", "Function", "Sample", "Profile"}

Empty(cls) ==
    CASE cls = "ValueType" -> ValueType_empty
      [] cls = "Label" -> Label_empty
      [] cls = "Line" -> Line_empty
      [] cls = "Mapping" -> Mapping_empty
      [] cls = "Location" -> Location_empty
      [] cls = "Function" -> Function_empty
      [] cls = "Sample" -> Sample_empty
      [] cls = "Profile" -> Profile_empty

\* new T(d)
New(cls, d) ==
    CASE cls = "ValueType" -> Ok(ValueType_new(d))
      [] cls = "Label" -> Ok(Label_new(d))
      [] cls = "Line" -> Ok(Line_new(d))
      [] cls = "Mapping" -> Ok(Mapping_new(d))
      [] cls = "Location" -> Ok(Location_new(d))
      [] cls = "Function" -> Ok(Function_new(d))
      [] cls = "Sample" -> Ok(Sample_new(d))
      [] cls = "Profile" -> Profile_new(d)

Length(m) ==
    CASE m.cls = "ValueType" -> ValueType_length(m)
      [] m.cls = "Label" -> Label_length(m)
      [] m.cls = "Line" -> Line_length(m)
      [] m.cls = "Mapping" -> Mapping_length(m)
      [] m.cls = "Location" -> Location_length(m)
      [] m.cls = "Function" -> Function_length(m)
      [] m.cls = "Sample" -> Sample_length(m)
      [] m.cls = "Profile" -> Profile_length(m)

\* m._encodeToBuffer(buffer, offset)
EncodeToBuffer(m, st) ==
    CASE m.cls = "ValueType" -> PutAll(st, ValueType_encodeToBuffer(m))
      [] m.cls = "Label" -> PutAll(st, Label_encodeToBuffer(m))
      [] m.cls = "Line" -> PutAll(st, Line_encodeToBuffer(m))
      [] m.cls = "Mapping" -> PutAll(st, Mapping_encodeToBuffer(m))
      [] m.cls = "Location" -> PutAll(st, Location_encodeToBuffer(m))
      [] m.cls = "Function" -> PutAll(st, Function_encodeToBuffer(m))
      [] m.cls = "Sample" -> PutAll(st, Sample_encodeToBuffer(m))
      [] m.cls = "Profile" -> Profile_encodeToBuffer(m, st)

\* what encode() hands back: the buffer, with the offset _encodeToBuffer returned
Returned(st) == [err |-> st.err, bytes |-> st.buf, off |-> st.off]

\* encode(buffer = new Uint8Array(this.length)): err when _encodeToBuffer threw
Encode(m) == Returned(EncodeToBuffer(m, NewBuffer(Length(m))))

\* static decode(buffer): new this(decode(buffer, this.decodeValue))
Decode(cls, buffer) ==
    CASE cls = "ValueType" -> ValueType_decode(buffer)
      [] cls = "Label" -> Label_decode(buffer)
      [] cls = "Line" -> Line_decode(buffer)
      [] cls = "Mapping" -> Mapping_decode(buffer)
      [] cls = "Location" -> Location_decode(buffer)
      [] cls = "Function" -> Function_decode(buffer)
      [] cls = "Sample" -> Sample_decode(buffer)
      [] cls = "Profile" -> Profile_decode(buffer)

\* this.decodeValue(data, field, value), the decoder static decode() hands to decode()
DecodeValue(cls, d, field, buffer) ==
    CASE cls = "ValueType" -> ValueType_decodeValue(d, field, buffer)
      [] cls = "Label" -> Label_decodeValue(d, field, buffer)
      [] cls = "Line" -> Line_decodeValue(d, field, buffer)
      [] cls = "Mapping" -> Mapping_decodeValue(d, field, buffer)
      [] cls = "Location" -> Location_decodeValue(d, field, buffer)
      [] cls = "Function" -> Function_decodeValue(d, field, buffer)
      [] cls = "Sample" -> Sample_decodeValue(d, field, buffer)
      [] cls = "Profile" -> Profile_decodeValue(d, field, buffer)

(***************************************************************************)
(* The schema: for each message type its fields by kind, and the tag byte  *)
(* (field_number << 3 | wire_type) that _encodeToBuffer writes for each.   *)
(***************************************************************************)
ScalarFields(cls) ==
    CASE cls = "ValueType" -> {"type", "unit"}
      [] cls = "Label" -> {"key", "str", "num", "numUnit"}
      [] cls = "Line" -> {"functionId", "line"}
      [] cls = "Mapping" ->
            {"id", "memoryStart", "memoryLimit", "fileOffset", "filename", "buildId"}
      [] cls = "Location" -> {"id", "mappingId", "address"}
      [] cls = "Function" -> {"id", "name", "systemName", "filename", "startLine"}
      [] cls = "Sample" -> {}
      [] cls = "Profile" ->
            {"dropFrames", "keepFrames", "timeNanos", "durationNanos", "period",
             "defaultSampleType"}

BoolFields(cls) ==
    CASE cls = "Mapping" -> {"hasFunctions", "hasFilenames", "hasLineNumbers", "hasInlineFrames"}
      [] cls = "Location" -> {"isFolded"}
      [] OTHER -> {}

\* packed repeated numbers
PackedFields(cls) ==
    CASE cls = "Sample" -> {"locationId", "value"}
      [] cls = "Profile" -> {"comment"}
      [] OTHER -> {}

\* repeated submessages
MessageFields(cls) ==
    CASE cls = "Sample" -> {"label"}
      [] cls = "Location" -> {"line"}
      [] cls = "Profile" -> {"sampleType", "sample", "mapping", "location", "function"}
      [] OTHER -> {}

Tag(cls, f) ==
    CASE cls \in {"ValueType", "Line"} ->
            (CASE f \in {"type", "functionId"} -> 8 [] f \in {"unit", "line"} -> 16)
      [] cls = "Label" ->
            (CASE f = "key" -> 8 [] f = "str" -> 16 [] f = "num" -> 24 [] f = "numUnit" -> 32)
      [] cls = "Sample" ->
            (CASE f = "locationId" -> 10 [] f = "value" -> 18 [] f = "label" -> 26)
      [] cls = "Mapping" ->
            (CASE f = "id" -> 8 [] f = "memoryStart" -> 16 [] f = "memoryLimit" -> 24
               [] f = "fileOffset" -> 32 [] f = "filename" -> 40 [] f = "buildId" -> 48
               [] f = "hasFunctions" -> 56 [] f = "hasFilenames" -> 64
               [] f = "hasLineNumbers" -> 72 [] f = "hasInlineFrames" -> 80)
      [] cls = "Location" ->
            (CASE f = "id" -> 8 [] f = "mappingId" -> 16 [] f = "address" -> 24
               [] f = "line" -> 34 [] f = "isFolded" -> 40)
      [] cls = "Function" ->
            (CASE f = "id" -> 8 [] f = "name" -> 16 [] f = "systemName" -> 24
               [] f = "filename" -> 32 [] f = "startLine" -> 40)
      [] cls = "Profile" ->
            (CASE f = "sampleType" -> 10 [] f = "sample" -> 18 [] f = "mapping" -> 26
               [] f = "location" -> 34 [] f = "function" -> 42 [] f = "stringTable" -> 50
               [] f = "dropFrames" -> 56 [] f = "keepFrames" -> 64 [] f = "timeNanos" -> 72
               [] f = "durationNanos" -> 80 [] f = "periodType" -> 90 [] f = "period" -> 96
               [] f = "comment" -> 106 [] f = "defaultSampleType" -> 112)

\* the fields of a message type, in the order _encodeToBuffer writes them
FieldOrder(cls) ==
    CASE cls = "ValueType" -> <<"type", "unit">>
      [] cls = "Label" -> <<"key", "str", "num", "numUnit">>
      [] cls = "Line" -> <<"functionId", "line">>
      [] cls = "Sample" -> <<"locationId", "value", "label">>
      [] cls = "Mapping" ->
            <<"id", "memoryStart", "memoryLimit", "fileOffset", "filename", "buildId",
              "hasFunctions", "hasFilenames", "hasLineNumbers", "hasInlineFrames">>
      [] cls = "Location" -> <<"id", "mappingId", "address", "line", "isFolded">>
      [] cls = "Function" -> <<"id", "name", "systemName", "filename", "startLine">>
      [] cls = "Profile" ->
            <<"sampleType", "sample", "mapping", "location", "function", "stringTable",
              "dropFrames", "keepFrames", "timeNanos", "durationNanos", "periodType",
              "period", "comment", "defaultSampleType">>

(***************************************************************************)
(* Inputs of the scenarios.                                                *)
(***************************************************************************)
\* the byte length of the long string-table entry (more than 127, so that its
\* length prefix takes two bytes)
LongLen == 131
\* the number of ten-byte values in the long packed list (payload of 128 bytes or more)
ManyValues == 13
\* the highest bit position of the non-negative safe integers given as number
MaxNumberBit == 52
\* the highest bit position of the integers given as bigint
MaxBigBit == 63
\* the most strings handed to StringTable.from, and the most entries a table grows to
MaxFrom == 3
MaxTable == 5
\* the most fields of a message received from outside
MaxRawFields == 2
\* at most this many bytes are missing from the end of a received message
MaxCut == 2

\* s repeated n times
RECURSIVE Repeat(_, _)
Repeat(s, n) ==
    IF n = 0 THEN <<>>
    ELSE IF n % 2 = 0 THEN LET h == Repeat(s, n \div 2) IN h \o h
    ELSE s \o Repeat(s, n - 1)

\* the sequences over S of length at most n
RECURSIVE SeqsUpTo(_, _)
SeqsUpTo(S, n) ==
    IF n = 0 THEN {<<>>}
    ELSE LET shorter == SeqsUpTo(S, n - 1)
         IN shorter \cup {Append(q, x) : q \in {r \in shorter : Len(r) = n - 1}, x \in S}

\* "aaa...a8": LongLen bytes, the last one being the ASCII digit 8 (56)
LongString == Repeat(<<97>>, LongLen - 1) \o <<56>>

Strings == {<<>>, <<97>>, <<98>>, <<233>>}

\* the LEB128 bytes of the unsigned integer with these bits, low group first
RECURSIVE Leb128(_)
Leb128(bits) ==
    IF \A i \in bits : i < 7 THEN <<BitsToInt(bits)>>
    ELSE <<128 + BitsToInt({i \in bits : i < 7})>>
         \o Leb128({i - 7 : i \in {j \in bits : j >= 7}})

\* a varint with one more group than it needs: the last byte continued, then 0
Padded(bytes) == SubSeq(bytes, 1, Len(bytes) - 1) \o <<bytes[Len(bytes)] + 128, 0>>

\* byte sequences handed to decodeNumber: the shortest varint of a value below 2^64,
\* varints with a padding group, 10-byte varints of a value of 2^64 or more, and
\* sequences that end inside a varint
VarintInputs ==
    {Leb128({})}
    \cup {Leb128({k}) : k \in {i \in 0..MaxBigBit : i < 64}}
    \cup {Leb128(0..k) : k \in {i \in 0..MaxBigBit : i < 64}}
    \cup {Padded(Leb128({k})) : k \in {0, 7, 27, 28, 62}}
    \cup {Leb128({64}), Leb128({69})}
    \cup {<<>>, <<128>>, <<255, 255>>, <<129, 128, 128, 128>>, <<255, 255, 255, 255, 255>>}

\* the bits of 1_000_000_000_000
TimeNanosBits == {12, 16, 18, 21, 23, 26, 28, 30, 31, 35, 37, 38, 39}

NumberInputs ==
    {Zero, Big({})}
    \cup {NumBits({k}) : k \in {i \in 0..MaxNumberBit : i < 53}}
    \cup {NumBits(0..k) : k \in {i \in 0..MaxNumberBit : i < 53}}
    \cup {Big({k}) : k \in {i \in 0..MaxBigBit : i < 64}}
    \cup {Big(0..k) : k \in {i \in 0..MaxBigBit : i < 64}}
    \cup {Neg(NumBits({k})) : k \in {i \in 0..MaxNumberBit : i < 53}}
    \cup {Neg(Big({k})) : k \in {i \in 0..MaxBigBit : i < 64}}
    \cup {Neg(NumBits(0..k)) : k \in {i \in 0..MaxNumberBit : i < 53}}
    \cup {Num(300), Num(1234), Neg(Num(300)), Big(IntToBits(1000000)),
          NumBits(TimeNanosBits)}

ScalarValues ==
    {Undefined, Zero, Big({}), Num(1), Num(300), NumBits({35}), Big(IntToBits(1000000)),
     Neg(Num(1))}

NumberLists ==
    {<<>>, <<Zero>>, <<Num(1)>>, <<Num(1), Num(2), Num(3)>>, <<Num(4), Num(5), Zero, Num(6)>>,
     <<Num(300), Neg(Num(1))>>, Repeat(<<Big({63})>>, ManyValues)}

\* records with at most two scalar fields given
ScalarInputs(cls) ==
    {[[Empty(cls) EXCEPT ![f] = a] EXCEPT ![g] = b] :
        f \in ScalarFields(cls), g \in ScalarFields(cls), a \in ScalarValues, b \in ScalarValues}

BoolInputs(cls) ==
    {[[[Empty(cls) EXCEPT ![f] = x] EXCEPT ![g] = y] EXCEPT ![h] = a] :
        f \in BoolFields(cls), g \in BoolFields(cls), x \in BOOLEAN, y \in BOOLEAN,
        h \in ScalarFields(cls), a \in {Undefined, Num(1)}}

LabelInput(k, s, n, u) ==
    [Label_empty EXCEPT !.key = Num(k), !.str = Num(s), !.num = n, !.numUnit = Num(u)]
LabelLists ==
    {<<>>, <<Label_empty>>, <<LabelInput(4, 5, Num(123), 6)>>,
     <<LabelInput(1, 0, Neg(Num(1)), 0), LabelInput(4, 5, Num(123), 6)>>,
     <<Label_empty, LabelInput(1, 2, Zero, 0)>>}
SampleInputs ==
    {[Sample_empty EXCEPT !.locationId = l, !.value = v, !.label = b] :
        l \in NumberLists, v \in NumberLists, b \in LabelLists}

LineInput(f, l) == [Line_empty EXCEPT !.functionId = Num(f), !.line = Num(l)]
LineLists ==
    {<<>>, <<Line_empty>>, <<LineInput(1, 1234)>>, <<LineInput(1, 2), LineInput(3, 0)>>}
LocationInputs ==
    {[Location_empty EXCEPT !.id = a, !.line = l, !.isFolded = b] :
        a \in {Undefined, Num(1)}, l \in LineLists, b \in BOOLEAN}

ValueTypeInput(t, u) == [ValueType_empty EXCEPT !.type = Num(t), !.unit = Num(u)]

\* the record of the repository's Profile test, with a string table of its own
TestProfile ==
    [Profile_empty EXCEPT
        !.sampleType = <<ValueTypeInput(1, 2)>>,
        !.sample = <<[Sample_empty EXCEPT !.locationId = <<Num(1), Num(2), Num(3)>>,
                                          !.value = <<Num(4), Num(5), Zero, Num(6)>>,
                                          !.label = <<LabelInput(4, 5, Num(123), 6)>>]>>,
        !.mapping = <<[Mapping_empty EXCEPT !.id = Num(1), !.memoryStart = Num(2),
                                            !.memoryLimit = Num(3), !.fileOffset = Num(4),
                                            !.filename = Num(1), !.buildId = Num(2),
                                            !.hasFunctions = TRUE, !.hasFilenames = TRUE,
                                            !.hasLineNumbers = TRUE,
                                            !.hasInlineFrames = TRUE]>>,
        !.location = <<[Location_empty EXCEPT !.id = Num(1), !.mappingId = Num(2),
                                              !.address = Num(3),
                                              !.line = <<LineInput(1, 1234)>>,
                                              !.isFolded = TRUE]>>,
        !.function = <<[Function_empty EXCEPT !.id = Num(123), !.name = Num(1),
                                              !.systemName = Num(2), !.filename = Num(3),
                                              !.startLine = Num(789)]>>,
        !.stringTable = ArrayIn(<< <<97>>, <<98>>, <<233>> >>),
        !.timeNanos = Big(IntToBits(1000000)),
        !.durationNanos = Num(1234),
        !.periodType = PeriodTypeIn(ValueTypeInput(1, 2)),
        !.period = Num(617),
        !.comment = <<Num(3)>>]

StringTableInputs ==
    {NoTableIn, TableIn(StringTable_new), ArrayIn(<<>>), ArrayIn(<< <<97>> >>),
     ArrayIn(<< <<97>>, <<233>> >>), ArrayIn(<< <<97>>, <<97>> >>), ArrayIn(<< <<>> >>),
     ArrayIn(<<LongString>>)}

ProfileInputs ==
    {[Profile_empty EXCEPT !.sampleType = t, !.stringTable = s, !.periodType = q,
                           !.period = n, !.comment = c] :
        t \in {<<>>, <<ValueType_empty>>, <<ValueTypeInput(1, 2)>>},
        s \in StringTableInputs,
        q \in {NoPeriodType, PeriodTypeIn(ValueType_empty), PeriodTypeIn(ValueTypeInput(1, 2))},
        n \in {Undefined, Num(8)},
        c \in {<<>>, <<Num(1)>>, <<Num(1), Num(2)>>}}
    \cup {TestProfile,
          [TestProfile EXCEPT !.stringTable = ArrayIn(<<LongString>>)],
          [Profile_empty EXCEPT !.sample = <<Sample_empty>>,
                                !.stringTable = ArrayIn(<< <<97>> >>)]}

\* the input records of the message scenario
Inputs(cls) ==
    CASE cls = "Sample" -> SampleInputs
      [] cls = "Location" -> ScalarInputs(cls) \cup LocationInputs
      [] cls = "Mapping" -> ScalarInputs(cls) \cup BoolInputs(cls)
      [] cls = "Profile" -> ScalarInputs(cls) \cup ProfileInputs
      [] OTHER -> ScalarInputs(cls)

\* a protobuf base-128 varint of a small non-negative integer
RECURSIVE Varint(_)
Varint(n) == IF n < 128 THEN <<n>> ELSE <<(n % 128) + 128>> \o Varint(n \div 128)

\* one field of a message received from outside: its number, wire kind and payload
RawField(field, mode, value) == [field |-> field, mode |-> mode, value |-> value]

RawFields ==
    {RawField(6, 2, <<97>>), RawField(6, 2, LongString), RawField(7, 0, <<5>>),
     RawField(12, 0, <<8>>), RawField(1, 2, <<8, 1, 16, 2>>), RawField(13, 2, <<1, 2>>),
     RawField(3, 0, <<172, 2>>), RawField(15, 0, <<1>>), RawField(2, 5, <<1, 2, 3, 4>>),
     RawField(3, 2, <<21, 1, 2, 3, 4>>), RawField(2, 2, <<26, 5, 21, 1, 2, 3, 4>>)}

RawMessages == SeqsUpTo(RawFields, MaxRawFields)

\* the bytes of a field on the wire: tag, length prefix for wire kind 2, payload
FrameField(f) ==
    <<f.field * 8 + f.mode>>
    \o (IF f.mode = kTypeLengthDelim THEN Varint(Len(f.value)) ELSE <<>>) \o f.value

RECURSIVE Frame(_)
Frame(fields) ==
    IF fields = <<>> THEN <<>> ELSE FrameField(Head(fields)) \o Frame(Tail(fields))

\* the bytes of a message whose last field is length-delimited, with the end of that
\* field's payload missing: the length prefix claims more bytes than remain
Truncations(fields) ==
    IF fields = <<>> \/ fields[Len(fields)].mode # kTypeLengthDelim THEN {}
    ELSE {SubSeq(Frame(fields), 1, Len(Frame(fields)) - k) :
             k \in {c \in 1..MaxCut : c <= Len(fields[Len(fields)].value)}}

(***************************************************************************)
(* Message scenario: a caller constructs a message from a record, encodes  *)
(* it and decodes the bytes again; or decodes a message received from      *)
(* outside.                                                                *)
(***************************************************************************)
numVars == <<number, nbuf, nval>>
tableVars == <<table, arg, ret>>
shareVars == <<heap, first, second>>
messageVars == <<kind, data, msg, written, raw, copy>>

IdleNum == number = Zero /\ nbuf = <<>> /\ nval = Zero
IdleTable == table = StringTable_new /\ arg = <<>> /\ ret = 0
\* the cells of the sharing scenario: the StringTable and the comment array of the
\* caller's input record, and those each constructor may create
EmptyHeap ==
    [input_table |-> StringTable_new, input_comment |-> <<>>,
     first_table |-> StringTable_new, first_comment |-> <<>>,
     second_table |-> StringTable_new, second_comment |-> <<>>]

\* a Profile instance whose stringTable and comment fields refer to the given cells
Instance(m, tableCell, commentCell) ==
    [m EXCEPT !.stringTable = tableCell, !.comment = commentCell]

IdleShare ==
    /\ heap = EmptyHeap
    /\ first = Instance(Profile_new(Profile_empty).data, "first_table", "first_comment")
    /\ second = Instance(Profile_new(Profile_empty).data, "second_table", "second_comment")

IdleMessage ==
    /\ kind = "ValueType" /\ data = ValueType_empty /\ msg = ValueType_empty
    /\ written = 0 /\ raw = <<>> /\ copy = Ok(ValueType_empty)

Init ==
    /\ IdleNum /\ IdleTable /\ IdleShare
    /\ kind \in Classes
    /\ msg = Empty(kind) /\ written = 0 /\ copy = Ok(Empty(kind))
    /\ \/ pc = "input" /\ data \in Inputs(kind) /\ raw = <<>> /\ wire = <<>>
       \/ pc = "received" /\ data = Empty(kind) /\ raw \in RawMessages /\ wire = Frame(raw)
       \/ pc = "received_cut" /\ data = Empty(kind) /\ raw \in RawMessages
          /\ wire \in Truncations(raw)

\* new T(data)
Construct ==
    /\ pc = "input"
    /\ \E r \in {New(kind, data)} :
          IF r.err THEN pc' = "construct_threw" /\ msg' = msg
          ELSE pc' = "constructed" /\ msg' = r.data
    /\ UNCHANGED <<shareVars, numVars, tableVars, kind, data, written, raw, wire, copy>>

\* msg.encode()
EncodeMessage ==
    /\ pc = "constructed"
    /\ \E e \in {Encode(msg)} :
          IF e.err THEN pc' = "encode_threw" /\ wire' = wire /\ written' = written
          ELSE pc' = "encoded" /\ wire' = e.bytes /\ written' = e.off
    /\ UNCHANGED <<shareVars, numVars, tableVars, kind, data, msg, raw, copy>>

\* msg.encode(buffer) with a buffer of the caller that is shorter than msg.length
EncodeInto ==
    /\ pc = "constructed"
    /\ \E n \in {k \in {0, Length(msg) - 1} : k >= 0 /\ k < Length(msg)} :
          \E e \in {Returned(EncodeToBuffer(msg, NewBuffer(n)))} :
             IF e.err THEN pc' = "short_threw" /\ wire' = wire /\ written' = written
             ELSE pc' = "short_encoded" /\ wire' = e.bytes /\ written' = e.off
    /\ UNCHANGED <<shareVars, numVars, tableVars, kind, data, msg, raw, copy>>

\* T.decode(wire) on the bytes encode() returned
DecodeMessage ==
    /\ pc = "encoded"
    /\ pc' = "decoded"
    /\ copy' = Decode(kind, wire)
    /\ UNCHANGED <<shareVars, numVars, tableVars, kind, data, msg, written, raw, wire>>

\* T.decode(wire) on a message received from outside, whole or cut short
DecodeReceived ==
    /\ pc \in {"received", "received_cut"}
    /\ pc' = IF pc = "received" THEN "raw_decoded" ELSE "cut_decoded"
    /\ copy' = Decode(kind, wire)
    /\ UNCHANGED <<shareVars, numVars, tableVars, kind, data, msg, written, raw, wire>>

Next == Construct \/ EncodeMessage \/ EncodeInto \/ DecodeMessage \/ DecodeReceived

Spec == Init /\ [][Next]_vars

(***************************************************************************)
(* Chunked encode scenario: the driver encodes a Profile into a buffer of  *)
(* its measured length in seven scheduling turns, one per group of fields, *)
(* and resolves with the buffer after the last one.                        *)
(***************************************************************************)
\* the position of the driver before each turn, named by the group the turn writes
AsyncTurns ==
    <<"turn_sampleType", "turn_sample", "turn_mapping", "turn_location", "turn_function",
      "turn_stringTable", "turn_scalars", "turn_done">>

\* the turn the driver is about to run
AsyncTurn == CHOOSE k \in 1..Len(AsyncTurns) : AsyncTurns[k] = pc

\* what one turn stores: the elements of one repeated message field, the entries of
\* the string table, or the fields behind the string table
AsyncGroup(m, k, st) ==
    CASE k = 1 -> PutAll(st, EncodeMessageArrayField(10,
                      [i \in DOMAIN m.sampleType |-> ValueType_length(m.sampleType[i])],
                      [i \in DOMAIN m.sampleType |-> ValueType_encodeToBuffer(m.sampleType[i])]))
      [] k = 2 -> PutAll(st, EncodeMessageArrayField(18,
                      [i \in DOMAIN m.sample |-> Sample_length(m.sample[i])],
                      [i \in DOMAIN m.sample |-> Sample_encodeToBuffer(m.sample[i])]))
      [] k = 3 -> PutAll(st, EncodeMessageArrayField(26,
                      [i \in DOMAIN m.mapping |-> Mapping_length(m.mapping[i])],
                      [i \in DOMAIN m.mapping |-> Mapping_encodeToBuffer(m.mapping[i])]))
      [] k = 4 -> PutAll(st, EncodeMessageArrayField(34,
                      [i \in DOMAIN m.location |-> Location_length(m.location[i])],
                      [i \in DOMAIN m.location |-> Location_encodeToBuffer(m.location[i])]))
      [] k = 5 -> PutAll(st, EncodeMessageArrayField(42,
                      [i \in DOMAIN m.function |-> Function_length(m.function[i])],
                      [i \in DOMAIN m.function |-> Function_encodeToBuffer(m.function[i])]))
      [] k = 6 -> StringTable_encode(m.stringTable, st)
      [] k = 7 -> PutAll(st, Profile_tail(m))

InitAsync == Init /\ pc = "input" /\ kind = "Profile"

\* the chunked entry point is called: the buffer is allocated, nothing is written yet
EncodeAsyncStart ==
    /\ pc = "constructed"
    /\ pc' = AsyncTurns[1]
    /\ wire' = NewBuffer(Length(msg)).buf
    /\ written' = 0
    /\ UNCHANGED <<shareVars, numVars, tableVars, kind, data, msg, raw, copy>>

\* one scheduling turn: the next group is stored behind what the turns before wrote;
\* a throw rejects the deferred buffer
EncodeAsyncTurn ==
    /\ pc \in {AsyncTurns[k] : k \in 1..7}
    /\ \E st \in {AsyncGroup(msg, AsyncTurn, [buf |-> wire, off |-> written, err |-> FALSE])} :
          IF st.err THEN pc' = "async_rejected" /\ wire' = wire /\ written' = written
          ELSE pc' = AsyncTurns[AsyncTurn + 1] /\ wire' = st.buf /\ written' = st.off
    /\ UNCHANGED <<shareVars, numVars, tableVars, kind, data, msg, raw, copy>>

\* after the last turn the deferred buffer resolves with the buffer
EncodeAsyncResolve ==
    /\ pc = "turn_done"
    /\ pc' = "async_resolved"
    /\ UNCHANGED <<shareVars, numVars, tableVars, kind, data, msg, written, raw, wire, copy>>

NextAsync == Construct \/ EncodeAsyncStart \/ EncodeAsyncTurn \/ EncodeAsyncResolve

SpecAsync == InitAsync /\ [][NextAsync]_vars

(***************************************************************************)
(* Varint scenario: encodeNumber writes a Numeric into a buffer and        *)
(* decodeNumber reads the written bytes back.                              *)
(***************************************************************************)
InitNum ==
    /\ pc = "num" /\ number \in NumberInputs /\ nbuf = <<>> /\ nval = Zero
    /\ IdleTable /\ IdleMessage /\ IdleShare /\ wire = <<>>

\* offset = encodeNumber(buffer, 0, number) on a buffer that has room for ten bytes
NumEncode ==
    /\ pc = "num"
    /\ pc' = "num_encoded"
    /\ \E st \in {encodeNumber(NewBuffer(10), number)} : nbuf' = SubSeq(st.buf, 1, st.off)
    /\ UNCHANGED <<shareVars, number, nval, tableVars, kind, data, msg, written, raw, wire, copy>>

\* decodeNumber(the bytes written)
NumDecode ==
    /\ pc = "num_encoded"
    /\ pc' = "num_decoded"
    /\ nval' = decodeNumber(nbuf)
    /\ UNCHANGED <<shareVars, number, nbuf, tableVars, kind, data, msg, written, raw, wire, copy>>

NextNum == NumEncode \/ NumDecode

SpecNum == InitNum /\ [][NextNum]_vars

(***************************************************************************)
(* Received varint scenario: decodeNumber reads a byte sequence received   *)
(* from outside and encodeNumber writes the decoded value again.           *)
(***************************************************************************)
InitBytes ==
    /\ pc = "bytes" /\ number = Zero /\ nbuf \in VarintInputs /\ nval = Zero
    /\ IdleTable /\ IdleMessage /\ IdleShare /\ wire = <<>>

\* value = decodeNumber(buffer)
BytesDecode ==
    /\ pc = "bytes"
    /\ pc' = "bytes_decoded"
    /\ nval' = decodeNumber(nbuf)
    /\ UNCHANGED <<shareVars, number, nbuf, tableVars, messageVars, wire>>

\* offset = encodeNumber(buffer, 0, value) on a buffer that has room for eleven bytes
BytesEncode ==
    /\ pc = "bytes_decoded"
    /\ pc' = "bytes_encoded"
    /\ \E st \in {encodeNumber(NewBuffer(11), nval)} : wire' = SubSeq(st.buf, 1, st.off)
    /\ UNCHANGED <<shareVars, numVars, tableVars, messageVars>>

NextBytes == BytesDecode \/ BytesEncode

SpecBytes == InitBytes /\ [][NextBytes]_vars

(***************************************************************************)
(* Decode loop scenario: T.decode(wire) one iteration of the loop of       *)
(* decode() at a time. written is the loop's index, copy the data object   *)
(* the decoders have filled so far; the nested decodes an iteration starts *)
(* run within it.                                                          *)
(***************************************************************************)
\* buffers that end right after a tag byte: a varint field and a length-delimited one
DanglingTags == {<<8>>, <<50>>, <<50, 1, 97, 56>>}

LoopBuffers ==
    {Frame(r) : r \in RawMessages} \cup UNION {Truncations(r) : r \in RawMessages}
    \cup DanglingTags

InitLoop ==
    /\ IdleNum /\ IdleTable /\ IdleShare
    /\ pc = "loop"
    /\ kind \in Classes
    /\ data = Empty(kind) /\ msg = Empty(kind) /\ raw = <<>>
    /\ wire \in LoopBuffers
    /\ written = 0
    /\ copy = Ok(Empty(kind))

\* the iteration of the loop that starts at index: the tag byte, getValue on the rest
\* of the buffer, and the index the loop goes on from
Iteration(buffer, index) ==
    decodeStep(index, At(buffer, index) \div 8, At(buffer, index) % 8,
               getValue(At(buffer, index) % 8, SliceFrom(buffer, index + 1)))

\* one iteration: the index moves past the value, then the decoder runs
LoopStep ==
    /\ pc = "loop"
    /\ written < Len(wire)
    /\ \E step \in {Iteration(wire, written)} :
          IF step.err
          THEN pc' = "loop_threw" /\ written' = written /\ copy' = Threw(copy.data)
          ELSE /\ written' = step.next
               /\ copy' = DecodeValue(kind, copy.data, step.field, step.value)
               /\ pc' = IF copy'.err THEN "loop_threw" ELSE "loop"
    /\ UNCHANGED <<shareVars, numVars, tableVars, kind, data, msg, raw, wire>>

\* the loop ends at the end of the buffer, and static decode() constructs the message
LoopReturn ==
    /\ pc = "loop"
    /\ written >= Len(wire)
    /\ copy' = New(kind, copy.data)
    /\ pc' = IF copy'.err THEN "loop_threw" ELSE "loop_returned"
    /\ UNCHANGED <<shareVars, numVars, tableVars, kind, data, msg, written, raw, wire>>

NextLoop == LoopStep \/ LoopReturn

SpecLoop == InitLoop /\ [][NextLoop]_vars

(***************************************************************************)
(* String table scenario: a table is made by the constructor, by           *)
(* StringTable.from, or entry by entry while a Profile is decoded and then *)
(* attached to it by the Profile constructor; callers then dedup strings   *)
(* into it and encode it.                                                  *)
(***************************************************************************)
InitTable ==
    /\ pc = "start" /\ IdleTable /\ IdleNum /\ IdleMessage /\ IdleShare /\ wire = <<>>

\* new StringTable()
TableNew ==
    /\ pc = "start"
    /\ pc' = "new"
    /\ table' = StringTable_new
    /\ UNCHANGED <<shareVars, arg, ret, numVars, messageVars, wire>>

\* StringTable.from(values) on an array of strings
TableFrom ==
    /\ pc = "start"
    /\ \E values \in SeqsUpTo(Strings, MaxFrom) :
          /\ arg' = values
          /\ \E r \in {StringTable_from(ArrayIn(values))} :
                IF r.err THEN pc' = "from_threw" /\ table' = table
                ELSE pc' = "from" /\ table' = r.tbl
    /\ UNCHANGED <<shareVars, ret, numVars, messageVars, wire>>

\* Profile.decodeValue, case 6, on one string-table entry of the message
TableDecodeEntry ==
    /\ pc \in {"start", "decoding"}
    /\ Len(table.strings) < MaxTable
    /\ \E string \in Strings :
          /\ arg' = string
          /\ \E r \in {Profile_decodeString(
                          [Profile_empty EXCEPT !.stringTable =
                              IF pc = "start" THEN NoTableIn ELSE TableIn(table)],
                          string)} :
                IF r.err THEN pc' = "decode_threw" /\ table' = table
                ELSE pc' = "decoding" /\ table' = r.data.stringTable.tbl
    /\ UNCHANGED <<shareVars, ret, numVars, messageVars, wire>>

\* the Profile constructor on the decoded data: StringTable.from(data.stringTable)
TableAttach ==
    /\ pc = "decoding"
    /\ pc' = "attached"
    /\ table' = StringTable_from(TableIn(table)).tbl
    /\ UNCHANGED <<shareVars, arg, ret, numVars, messageVars, wire>>

\* the states in which a caller holds a table it built itself
TableBuilt == pc \in {"new", "from", "deduped", "table_encoded"}

\* the states in which a caller holds the table of a decoded Profile
TableDecoded == pc \in {"attached", "attached_deduped", "attached_encoded"}

\* the states in which a caller holds a table
TableReady == TableBuilt \/ TableDecoded

\* table.dedup(string)
TableDedup ==
    /\ TableReady
    /\ Len(table.strings) < MaxTable
    /\ \E string \in Strings :
          /\ arg' = string
          /\ \E r \in {StringTable_dedup(table, StrArg(string))} :
                table' = r.tbl /\ ret' = r.ret
    /\ pc' = IF TableBuilt THEN "deduped" ELSE "attached_deduped"
    /\ UNCHANGED <<shareVars, numVars, messageVars, wire>>

\* table.encode(buffer, 0) on a buffer of table.encodedLength bytes
TableEncode ==
    /\ TableReady /\ pc \notin {"table_encoded", "attached_encoded"}
    /\ pc' = IF TableBuilt THEN "table_encoded" ELSE "attached_encoded"
    /\ wire' = StringTable_encode(table, NewBuffer(StringTable_encodedLength(table))).buf
    /\ UNCHANGED <<shareVars, table, arg, ret, numVars, messageVars>>

NextTable ==
    TableNew \/ TableFrom \/ TableDecodeEntry \/ TableAttach \/ TableDedup \/ TableEncode

SpecTable == InitTable /\ [][NextTable]_vars

(***************************************************************************)
(* Sharing scenario: a caller constructs two Profiles from one input       *)
(* record and then changes the first one. The scenario keeps the objects   *)
(* that the constructor does not copy in cells, so that two instances can  *)
(* refer to the same object.                                               *)
(***************************************************************************)
ShareInputs ==
    {[Profile_empty EXCEPT !.sampleType = t, !.stringTable = s, !.comment = c] :
        t \in {<<>>, <<ValueTypeInput(1, 2)>>},
        s \in {NoTableIn, ArrayIn(<< <<97>> >>), TableIn(StringTable_new),
               TableIn(StringTable_dedup(StringTable_new, StrArg(<<98>>)).tbl)},
        c \in {<<>>, <<Num(1)>>}}

\* StringTable.from(values) returns values itself when it is a StringTable
TableCell(d, own) == IF d.stringTable.def /\ d.stringTable.isTable THEN "input_table" ELSE own

\* this.comment = data.comment || []: the array of the input record when it has one
CommentCell(d, own) == IF d.comment # <<>> THEN "input_comment" ELSE own

\* the cells after new Profile(d) created the objects it does not take from d
Allocated(h, r, tableCell, commentCell) ==
    [h EXCEPT ![tableCell] = r.data.stringTable, ![commentCell] = r.data.comment]

InitShare ==
    /\ pc = "share_input" /\ IdleNum /\ IdleTable /\ wire = <<>>
    /\ kind = "Profile" /\ msg = Empty(kind) /\ copy = Ok(Empty(kind))
    /\ written = 0 /\ raw = <<>>
    /\ data \in ShareInputs
    /\ heap = [EmptyHeap EXCEPT !.input_table = data.stringTable.tbl,
                                !.input_comment = data.comment]
    /\ first = Instance(Profile_new(Profile_empty).data, "first_table", "first_comment")
    /\ second = Instance(Profile_new(Profile_empty).data, "second_table", "second_comment")

\* first = new Profile(data)
ConstructFirst ==
    /\ pc = "share_input"
    /\ \E r \in {Profile_new([data EXCEPT !.stringTable =
                        IF @.isTable THEN TableIn(heap.input_table) ELSE @])} :
          IF r.err THEN pc' = "share_threw" /\ UNCHANGED <<heap, first>>
          ELSE /\ pc' = "first_built"
               /\ heap' = Allocated(heap, r, TableCell(data, "first_table"),
                                    CommentCell(data, "first_comment"))
               /\ first' = Instance(r.data, TableCell(data, "first_table"),
                                    CommentCell(data, "first_comment"))
    /\ UNCHANGED <<numVars, tableVars, messageVars, wire, second>>

\* second = new Profile(data), from the same input record
ConstructSecond ==
    /\ pc = "first_built"
    /\ \E r \in {Profile_new([data EXCEPT !.stringTable =
                        IF @.isTable THEN TableIn(heap.input_table) ELSE @])} :
          IF r.err THEN pc' = "share_threw" /\ UNCHANGED <<heap, second>>
          ELSE /\ pc' = "both_built"
               /\ heap' = Allocated(heap, r, TableCell(data, "second_table"),
                                    CommentCell(data, "second_comment"))
               /\ second' = Instance(r.data, TableCell(data, "second_table"),
                                     CommentCell(data, "second_comment"))
    /\ UNCHANGED <<numVars, tableVars, messageVars, wire, first>>

\* the scenario changes the first Profile at most twice
Changing == pc \in {"both_built", "changed"}
Changed == IF pc = "both_built" THEN "changed" ELSE "changed_twice"

\* first.stringTable.dedup(string)
DedupFirst ==
    /\ Changing /\ pc' = Changed
    /\ \E string \in Strings :
          heap' = [heap EXCEPT ![first.stringTable] = StringTable_dedup(@, StrArg(string)).tbl]
    /\ UNCHANGED <<numVars, tableVars, messageVars, wire, first, second>>

\* first.comment.push(index)
PushFirst ==
    /\ Changing /\ pc' = Changed
    /\ heap' = [heap EXCEPT ![first.comment] = Append(@, Num(7))]
    /\ UNCHANGED <<numVars, tableVars, messageVars, wire, first, second>>

\* first.sampleType[0].type = 9, or first.sampleType.push(new ValueType({type: 9}))
ChangeNestedFirst ==
    /\ Changing /\ pc' = Changed
    /\ \/ first.sampleType # <<>> /\ first' = [first EXCEPT !.sampleType[1].type = Num(9)]
       \/ first' = [first EXCEPT !.sampleType =
                        Append(@, ValueType_new(ValueTypeInput(9, 0)))]
    /\ UNCHANGED <<numVars, tableVars, messageVars, wire, heap, second>>

NextShare ==
    ConstructFirst \/ ConstructSecond \/ DedupFirst \/ PushFirst \/ ChangeNestedFirst

SpecShare == InitShare /\ [][NextShare]_vars

(***************************************************************************)
(* Vocabulary of the properties.                                           *)
(***************************************************************************)
\* new T({}): the record with every field at its default
Default(cls) == New(cls, Empty(cls)).data

\* field f of the instance m holds its default
IsDefault(m, f) ==
    IF f \in ScalarFields(m.cls) THEN ~Truthy(m[f]) ELSE m[f] = Default(m.cls)[f]

\* the instance that holds only field f of m, every other field at its default
Only(m, f) == [Default(m.cls) EXCEPT ![f] = m[f]]

\* the fields of m that do not hold their default, in schema order
Given(m) == SelectSeq(FieldOrder(m.cls), LAMBDA f : ~IsDefault(m, f))

RECURSIVE SumLengths(_, _)
SumLengths(m, fields) ==
    IF fields = <<>> THEN 0
    ELSE Length(Only(m, Head(fields))) + SumLengths(m, Tail(fields))

RECURSIVE SumWritten(_, _)
SumWritten(m, fields) ==
    IF fields = <<>> THEN 0
    ELSE Encode(Only(m, Head(fields))).off + SumWritten(m, Tail(fields))

RECURSIVE ConcatEncodings(_, _)
ConcatEncodings(m, fields) ==
    IF fields = <<>> THEN <<>>
    ELSE Encode(Only(m, Head(fields))).bytes \o ConcatEncodings(m, Tail(fields))

\* tag, varint length equal to the element's measured length, the element's encoding,
\* for each element in order
RECURSIVE ElementFrames(_, _)
ElementFrames(tag, list) ==
    IF list = <<>> THEN <<>>
    ELSE <<tag>> \o Varint(Length(Head(list))) \o Encode(Head(list)).bytes
         \o ElementFrames(tag, Tail(list))

SameNumbers(a, b) == Len(a) = Len(b) /\ \A i \in 1..Len(a) : NumEq(a[i], b[i])

\* a and b are instances of one class that agree field for field (numbers by value,
\* string tables by their entries)
RECURSIVE SameMessage(_, _)
SameMessage(a, b) ==
    /\ a.cls = b.cls
    /\ \A f \in ScalarFields(a.cls) : NumEq(a[f], b[f])
    /\ \A f \in BoolFields(a.cls) : a[f] = b[f]
    /\ \A f \in PackedFields(a.cls) : SameNumbers(a[f], b[f])
    /\ \A f \in MessageFields(a.cls) :
          /\ Len(a[f]) = Len(b[f])
          /\ \A i \in 1..Len(a[f]) : SameMessage(a[f][i], b[f][i])
    /\ a.cls = "Profile" =>
          /\ a.stringTable.strings = b.stringTable.strings
          /\ a.periodType.def = b.periodType.def
          /\ a.periodType.def => SameMessage(a.periodType.v, b.periodType.v)

Unique(q) == \A i \in 1..Len(q) : \A j \in 1..Len(q) : q[i] = q[j] => i = j

\* an empty table after dedup of each string of values, in order
RECURSIVE DedupAll(_, _)
DedupAll(tbl, values) ==
    IF values = <<>> THEN tbl
    ELSE DedupAll(StringTable_dedup(tbl, StrArg(Head(values))).tbl, Tail(values))

\* the string-table field of one entry on the wire: nothing for the empty string
EntryBytes(string) ==
    IF string = <<>> THEN <<>>
    ELSE <<50>> \o Varint(Len(toUtf8(string))) \o toUtf8(string)

RECURSIVE EntriesBytes(_)
EntriesBytes(strings) ==
    IF strings = <<>> THEN <<>> ELSE EntryBytes(Head(strings)) \o EntriesBytes(Tail(strings))

(***************************************************************************)
(* Properties.                                                             *)
(***************************************************************************)

\* C1: decoding the bytes that encode() returned for a message yields a message
\* equal to the encoded one, field for field (numbers compared by value).
C1_RoundTrip ==
    pc = "decoded" => ~copy.err /\ SameMessage(copy.data, msg)

\* C2: encode() never fails for want of room, and the number of bytes it writes is
\* exactly the length measured for the message.
C2_MeasuredLengthExact ==
    /\ pc # "encode_threw"
    /\ pc = "encoded" => written = Length(msg) /\ Len(wire) = written

\* C3: decodeNumber of the bytes encodeNumber wrote for a number gives that number
\* back, negative numbers included.
C3_VarintRoundTrip ==
    pc = "num_decoded" => NumEq(nval, number)

\* C4: a field that holds its default adds nothing to the measured length and
\* nothing to the bytes written, so that a message of defaults encodes to no byte
\* at all, whereas a boolean field that is true is written as its tag and 1.
C4_DefaultOmission ==
    pc = "encoded" =>
        /\ Length(msg) = SumLengths(msg, Given(msg))
        /\ written = SumWritten(msg, Given(msg))
        /\ Given(msg) = <<>> => Length(msg) = 0 /\ wire = <<>>
        /\ \A f \in ScalarFields(kind) :
              ~Truthy(msg[f]) =>
                  /\ measureNumberField(msg[f]) = 0
                  /\ EncodeNumberField(Tag(kind, f), msg[f]) = <<>>
        /\ \A f \in BoolFields(kind) :
              /\ msg[f] => Encode(Only(msg, f)).bytes = <<Tag(kind, f), 1>>
              /\ ~msg[f] => Encode(Only(msg, f)).bytes = <<>>

\* C4 happens: Mapping({hasFunctions: true}) was encoded to the bytes 38 01
C4_Witness ==
    /\ pc = "encoded" /\ kind = "Mapping"
    /\ msg = [Default("Mapping") EXCEPT !.hasFunctions = TRUE]
    /\ Length(msg) = 2 /\ wire = <<56, 1>>

\* C5: in a message decoded without error, every field whose number does not occur
\* in the received bytes holds its default.
C5_MissingFieldDefault ==
    (pc = "raw_decoded" /\ ~copy.err) =>
        \A i \in 1..Len(FieldOrder(kind)) :
            (\A j \in 1..Len(raw) : raw[j].field # Tag(kind, FieldOrder(kind)[i]) \div 8)
                => IsDefault(copy.data, FieldOrder(kind)[i])

\* C6: the bytes of a message are the bytes of its non-default fields, one field
\* after the other in schema order, and a repeated message field is, element by
\* element, the tag, the element's measured length and the element's bytes.
C6_WireLayout ==
    pc = "encoded" =>
        /\ wire = ConcatEncodings(msg, FieldOrder(kind))
        /\ \A f \in MessageFields(kind) :
              Encode(Only(msg, f)).bytes = ElementFrames(Tag(kind, f), msg[f])

\* C7: a length-delimited field of L payload bytes hands exactly those L bytes to
\* the field decoder, and decoding resumes right behind them, also when L >= 128.
C7_LengthDelimExtraction ==
    pc = "raw_decoded" =>
        \A i \in 1..Len(raw) :
            (raw[i].mode = kTypeLengthDelim /\ \A j \in 1..i : raw[j].mode \in {0, 2}) =>
                /\ Len(decodeSteps(wire, 0)) >= i
                /\ decodeSteps(wire, 0)[i].value = raw[i].value
                /\ decodeSteps(wire, 0)[i].next =
                       decodeSteps(wire, 0)[i].at + 1 + Len(Varint(Len(raw[i].value)))
                       + Len(raw[i].value)

\* C8: a table a caller holds starts with the empty string and has no string
\* twice; dedup of a string returns the index at which the table holds it, a
\* second dedup returns the same index without growing the table, and dedup of
\* the empty string returns 0.
C8_DedupInvariant ==
    TableReady =>
        /\ table.strings[1] = <<>>
        /\ Unique(table.strings)
        /\ \A s \in Strings :
              /\ StringTable_dedup(table, StrArg(s)).tbl.strings
                     [StringTable_dedup(table, StrArg(s)).ret + 1] = s
              /\ StringTable_dedup(StringTable_dedup(table, StrArg(s)).tbl, StrArg(s))
                     = StringTable_dedup(table, StrArg(s))
              /\ s = <<>> => StringTable_dedup(table, StrArg(s)).ret = 0

\* C9: StringTable.from(values) never fails and gives the table that dedup of each
\* value, in order, into an empty table gives: the same strings at the same
\* indices; from(['']) is an empty table.
C9_FromDedupsInOrder ==
    /\ pc # "from_threw"
    /\ pc = "from" =>
          /\ table.strings = DedupAll(StringTable_new, arg).strings
          /\ \A s \in Strings :
                StringTable_dedup(table, StrArg(s)).ret
                    = StringTable_dedup(DedupAll(StringTable_new, arg), StrArg(s)).ret

\* C10: the encoding of a table is the string-table field of each of its entries
\* in table order, with nothing for the empty string, and encodedLength is the
\* length of that encoding.
C10_EmptyNeverEmitted ==
    pc = "table_encoded" =>
        /\ wire = EntriesBytes(table.strings)
        /\ StringTable_encodedLength(table) = Len(EntriesBytes(table.strings))

\* the string-table field of one string as a protobuf encoder writes it, the empty
\* string included: tag 0x32, the byte length, the UTF-8 bytes
StringField(string) == <<50>> \o Varint(Len(toUtf8(string))) \o toUtf8(string)

RECURSIVE StringFields(_)
StringFields(strings) ==
    IF strings = <<>> THEN <<>> ELSE StringField(Head(strings)) \o StringFields(Tail(strings))

\* C11: StringTable.from never fails, and the encoding of a table is the field of
\* every entry in table order, the empty string at index 0 included (32 00).
C11_TableEncodesEveryEntry ==
    /\ pc # "from_threw"
    /\ pc = "table_encoded" => wire = StringFields(table.strings)

\* the sum of the encoded lengths of the elements of a packed field
RECURSIVE PayloadLength(_)
PayloadLength(list) ==
    IF list = <<>> THEN 0
    ELSE Len(encodeNumberBytes(Head(list))) + PayloadLength(Tail(list))

\* a packed field on the wire: nothing for the empty sequence, else the tag, the
\* payload length and each element's varint in order
PackedLayout(tag, list) ==
    IF list = <<>> THEN <<>>
    ELSE <<tag>> \o Varint(PayloadLength(list)) \o EncodeNumbers(list)

\* C12: Sample.locationId and Sample.value are written as one packed field each (tag,
\* payload length, the elements in order, zeros kept; nothing when empty), and
\* decoding the bytes gives the same sequences back.
C12_PackedFields ==
    /\ (pc = "encoded" /\ kind = "Sample") =>
          \A f \in {"locationId", "value"} :
              Encode(Only(msg, f)).bytes = PackedLayout(Tag(kind, f), msg[f])
    /\ (pc = "decoded" /\ kind = "Sample") =>
          /\ ~copy.err
          /\ \A f \in {"locationId", "value"} : SameNumbers(copy.data[f], msg[f])

\* C13: a Profile whose periodType is set is measured and encoded with field 11 as
\* tag 5a, the length of the ValueType and its bytes, also when the ValueType holds
\* only zeros (5a 00, 2 bytes); a Profile whose periodType is not set has no field 11.
C13_PeriodTypePresence ==
    (pc = "encoded" /\ kind = "Profile") =>
        IF msg.periodType.def
        THEN /\ Length(Only(msg, "periodType"))
                   = 2 + Len(ValueType_encodeToBuffer(msg.periodType.v))
             /\ Encode(Only(msg, "periodType")).bytes
                   = <<90>> \o Varint(Len(ValueType_encodeToBuffer(msg.periodType.v)))
                     \o ValueType_encodeToBuffer(msg.periodType.v)
        ELSE /\ Length(Only(msg, "periodType")) = 0
             /\ Encode(Only(msg, "periodType")).bytes = <<>>

\* the field numbers the class cls decodes
KnownFields(cls) == {Tag(cls, FieldOrder(cls)[i]) \div 8 : i \in 1..Len(FieldOrder(cls))}

\* the sequence q without its element i
Without(q, i) == SubSeq(q, 1, i - 1) \o SubSeq(q, i + 1, Len(q))

\* C14: a varint or length-delimited field whose number the class does not know is
\* skipped: decoding the message gives what decoding it without that field gives.
C14_UnknownFieldSkipped ==
    pc = "raw_decoded" =>
        \A i \in 1..Len(raw) :
            (raw[i].mode \in {kTypeVarInt, kTypeLengthDelim}
                    /\ raw[i].field \notin KnownFields(kind))
                => copy = Decode(kind, Frame(Without(raw, i)))

\* the message type of the elements of the repeated message field f
ElementClass(f) ==
    CASE f = "sampleType" -> "ValueType" [] f = "sample" -> "Sample"
      [] f = "mapping" -> "Mapping" [] f = "location" -> "Location"
      [] f = "function" -> "Function" [] f = "label" -> "Label" [] f = "line" -> "Line"

\* messages a length-delimited payload may hold: a field of wire kind 5, alone or
\* inside a nested message of its own
NestedMessages ==
    {<<RawField(2, 5, <<1, 2, 3, 4>>)>>, <<RawField(3, 2, <<21, 1, 2, 3, 4>>)>>}

\* the message of type cls made of these fields has a tag of a wire kind other than
\* varint and length-delimited, at the top or in a nested message one of its fields holds
RECURSIVE HasUnsupportedKind(_, _)
HasUnsupportedKind(cls, fields) ==
    \E i \in 1..Len(fields) :
        \/ fields[i].mode \notin {kTypeVarInt, kTypeLengthDelim}
        \/ /\ fields[i].mode = kTypeLengthDelim
           /\ \E f \in MessageFields(cls), inner \in NestedMessages :
                 /\ Tag(cls, f) \div 8 = fields[i].field
                 /\ Frame(inner) = fields[i].value
                 /\ HasUnsupportedKind(ElementClass(f), inner)

\* C15: a tag of a wire kind other than varint (0) and length-delimited (2) makes decode
\* throw, in the message that holds it and in every message that encloses that one, so
\* that no record is returned.
C15_UnsupportedKindFatal ==
    (pc = "raw_decoded" /\ HasUnsupportedKind(kind, raw)) => copy.err

\* a Profile whose sample holds a label with a field of wire kind 5 was decoded
C15_Witness ==
    /\ pc = "raw_decoded" /\ kind = "Profile"
    /\ raw = <<RawField(2, 2, <<26, 5, 21, 1, 2, 3, 4>>)>>
    /\ HasUnsupportedKind(kind, raw)
    /\ copy.err

\* C16: when the length prefix of a length-delimited field claims more payload bytes
\* than remain in the buffer, decode throws instead of returning a record built from the
\* shortened payload.
C16_TruncatedFatal == pc = "cut_decoded" => copy.err

\* C17: encode with a buffer of the caller that is shorter than the measured length of
\* the message fails with an error; it never returns a truncated encoding.
C17_ShortBufferFatal == pc = "short_encoded" => Len(wire) >= Length(msg)

\* the bits of the unsigned integer a varint encodes: 7 bits a byte, low group first
RECURSIVE VarintBits(_)
VarintBits(bytes) ==
    IF bytes = <<>> THEN {}
    ELSE IntToBits(Head(bytes) % 128)
         \cup (IF Head(bytes) >= 128 THEN {i + 7 : i \in VarintBits(Tail(bytes))} ELSE {})

\* x supplied as the other kind of Numeric: a native number as a bigint and back
AsType(x, t) == [x EXCEPT !.t = t]

\* a magnitude a native number holds exactly
Safe(x) == \A i \in x.bits : i < 53

RECURSIVE Reference(_)
RECURSIVE ReferenceElements(_, _)
ReferenceElements(tag, list) ==
    IF list = <<>> THEN <<>>
    ELSE <<tag>> \o Varint(Len(Reference(Head(list)))) \o Reference(Head(list))
         \o ReferenceElements(tag, Tail(list))

ReferenceField(m, f) ==
    IF f \in ScalarFields(m.cls)
    THEN (IF Truthy(m[f]) THEN <<Tag(m.cls, f)>> \o encodeNumberBytes(m[f]) ELSE <<>>)
    ELSE IF f \in BoolFields(m.cls) THEN (IF m[f] THEN <<Tag(m.cls, f), 1>> ELSE <<>>)
    ELSE IF f \in PackedFields(m.cls) THEN PackedLayout(Tag(m.cls, f), m[f])
    ELSE IF f \in MessageFields(m.cls) THEN ReferenceElements(Tag(m.cls, f), m[f])
    ELSE IF f = "stringTable" THEN StringFields(m.stringTable.strings)
    ELSE IF m.periodType.def
    THEN <<Tag(m.cls, f)>> \o Varint(Len(Reference(m.periodType.v)))
         \o Reference(m.periodType.v)
    ELSE <<>>

RECURSIVE ReferenceFields(_, _)
ReferenceFields(m, fields) ==
    IF fields = <<>> THEN <<>>
    ELSE ReferenceField(m, Head(fields)) \o ReferenceFields(m, Tail(fields))

Reference(m) == ReferenceFields(m, FieldOrder(m.cls))

\* C19: the bytes encode() returns for a Profile are the bytes a general protobuf
\* encoder writes for the same data, and decoding the bytes of that encoder gives an
\* equal Profile, with the same string at every index of the string table.
C19_MatchesReference ==
    (pc = "encoded" /\ kind = "Profile") =>
        /\ wire = Reference(msg)
        /\ ~Decode(kind, Reference(msg)).err
        /\ SameMessage(Decode(kind, Reference(msg)).data, msg)

Value(p) == Instance(p, heap[p.stringTable], heap[p.comment])

\* C21: once two Profiles are constructed, also from one input record or with one
\* StringTable, a dedup on the first one's stringTable and a change of the first one's
\* sequences and nested messages leave the second one's fields, length and encoding as
\* they were.
C21_NoSharedState ==
    [][Changing =>
          /\ Value(second)' = Value(second)
          /\ Length(Value(second))' = Length(Value(second))
          /\ Encode(Value(second))' = Encode(Value(second))]_vars

\* C22: measureNumber of a number that is not zero is the number of bytes encodeNumber
\* writes for it, between 1 and 10; measureNumber(0) is 0, so that a field holding zero is
\* left out; and where a zero varint is written (a zero in a packed field, the length of
\* an empty string, the length of an empty submessage) its one byte is counted.
C22_MeasureMatchesEncode ==
    pc = "num_encoded" =>
        /\ ~IsZero(number) =>
              /\ measureNumber(number) = Len(nbuf)
              /\ Len(nbuf) \in 1..10
        /\ IsZero(number) =>
              /\ measureNumber(number) = 0 /\ measureNumberField(number) = 0
              /\ nbuf = <<0>>
              /\ measureNumberArrayField(<<number>>) = 2 + Len(nbuf)
              /\ ~StringTable_encodeString(<<>>).err
              /\ Len(StringTable_encodeString(<<>>).buf) = 1 + Len(nbuf)
              /\ measureLengthDelimField(Default("ValueType"), Length(Default("ValueType")))
                    = 1 + Len(nbuf)

\* the bits of 2^64 - m for a magnitude m of 1 to 2^63 given by its bits: every one of
\* the 64 bits inverted, then one added
TwosComplement(bits) ==
    LET inverted == (0..63) \ bits
        k == CHOOSE i \in 0..63 : i \notin inverted /\ \A j \in 0..(i - 1) : j \in inverted
    IN {i \in inverted : i > k} \cup {k}

\* C23: for a negative v of magnitude up to 2^63, long(v) is the pair of the high and the
\* low 32-bit word of 2^64 + v, encodeNumber writes the LEB128 groups of 2^64 + v, which
\* are 10 bytes, and measureNumber(v) is 10.
C23_NegativeTwosComplement ==
    (pc = "num_encoded" /\ number.neg /\ ~IsZero(number)) =>
        /\ long(number) = <<{i - 32 : i \in {j \in TwosComplement(number.bits) : j >= 32}},
                            {i \in TwosComplement(number.bits) : i < 32}>>
        /\ nbuf = Leb128(TwosComplement(number.bits))
        /\ Len(nbuf) = 10
        /\ measureNumber(number) = 10

\* -2^32, where the increment of the low word carries into the high word, was encoded
C23_Witness ==
    /\ pc = "num_encoded" /\ number = Neg(NumBits({32}))
    /\ long(number) = <<WordBits, {}>>
    /\ nbuf = <<128, 128, 128, 128, 240, 255, 255, 255, 255, 1>>

\* a varint byte sequence of 1 to 10 bytes: every byte but the last is continued
ValidVarint(bytes) ==
    /\ Len(bytes) \in 1..10
    /\ \A i \in 1..(Len(bytes) - 1) : bytes[i] >= 128
    /\ bytes[Len(bytes)] < 128

\* the shortest varint of a value below 2^64: no padding group at the end, and a tenth
\* byte that holds bit 63 only
ShortestVarint(bytes) ==
    /\ ValidVarint(bytes)
    /\ Len(bytes) > 1 => bytes[Len(bytes)] # 0
    /\ Len(bytes) = 10 => bytes[10] = 1

\* C24, as claimed: for every valid varint byte sequence of 1 to 10 bytes, encodeNumber
\* of what decodeNumber read from it writes exactly these bytes.
C24_BytesRoundTrip ==
    (pc = "bytes_encoded" /\ ValidVarint(nbuf)) => wire = nbuf

\* C24, amended: encodeNumber of what decodeNumber read writes exactly the bytes read
\* for every varint byte sequence that is the shortest one of a value below 2^64.
C24_ShortestBytesRoundTrip ==
    (pc = "bytes_encoded" /\ ShortestVarint(nbuf)) => wire = nbuf

\* the ten bytes of 2^63 were decoded and written again
C24_Witness ==
    /\ pc = "bytes_encoded" /\ ShortestVarint(nbuf)
    /\ nbuf = <<128, 128, 128, 128, 128, 128, 128, 128, 128, 1>>
    /\ nval = Big({63})
    /\ wire = nbuf

\* what the occurrences of the repeated field f among these fields hold, one after the
\* other in wire order: one message for each occurrence of a message field, the numbers
\* of each occurrence of a packed field
RECURSIVE Occurrences(_, _, _)
Occurrences(cls, f, fields) ==
    IF fields = <<>> THEN <<>>
    ELSE (IF Head(fields).field = Tag(cls, f) \div 8 /\ Head(fields).mode = kTypeLengthDelim
          THEN (IF f \in PackedFields(cls) THEN decodeNumbers(Head(fields).value)
                ELSE <<Decode(ElementClass(f), Head(fields).value).data>>)
          ELSE <<>>)
         \o Occurrences(cls, f, Tail(fields))

\* C25: when the number of a repeated field occurs several times in a message, every
\* occurrence appends to what was decoded before: the decoded sequence of a repeated
\* message field and of a packed field is the concatenation of all occurrences in wire
\* order.
C25_RepeatedFieldsAppend ==
    (pc = "raw_decoded" /\ ~copy.err) =>
        \A f \in MessageFields(kind) \cup PackedFields(kind) :
            copy.data[f] = Occurrences(kind, f, raw)

\* C26: the comment field of a Profile with at least one comment is measured as one byte
\* for the tag, the bytes of the payload length and the payload, is written as one field
\* with tag 6a, and decoding the Profile gives all the indices back in order.
C26_CommentPacked ==
    (kind = "Profile" /\ msg.comment # <<>>) =>
        /\ pc = "encoded" =>
              /\ Length(Only(msg, "comment"))
                    = 1 + Len(Varint(PayloadLength(msg.comment))) + PayloadLength(msg.comment)
              /\ Encode(Only(msg, "comment")).bytes = PackedLayout(106, msg.comment)
        /\ pc = "decoded" => ~copy.err /\ SameNumbers(copy.data.comment, msg.comment)

\* the step is a call of dedup
DedupStep == TableReady /\ pc' \in {"deduped", "attached_deduped"}

\* the table holds the string
Holds(tbl, string) == \E i \in 1..Len(tbl.strings) : tbl.strings[i] = string

\* C27: a dedup of a string the table does not hold appends one entry, at the index
\* that was the length of the table, and caches its encoded bytes; a dedup of a string
\* the table holds, or of the empty string, leaves the table as it was; no entry is ever
\* removed or moved.
C27_TableOnlyGrows ==
    [][DedupStep =>
          /\ \A i \in 1..Len(table.strings) :
                Len(table'.strings) >= i /\ table'.strings[i] = table.strings[i]
          /\ IF arg' # <<>> /\ ~Holds(table, arg')
             THEN /\ table'.strings = Append(table.strings, arg')
                  /\ ret' = Len(table.strings)
                  /\ MapHas(table'.encodings, arg')
                  /\ MapGet(table'.encodings, arg') = StringField(arg')
                  /\ StringTable_encodedLength(table')
                        = StringTable_encodedLength(table) + Len(StringField(arg'))
             ELSE table' = table]_vars

\* the functions of the varint codec that read a buffer
VarintReaders ==
    {"countNumberBytes", "decodeBigNumber", "decodeNumber", "decodeNumbers", "getValue"}

\* C28: the varint decoders read their buffer only at indices below its length, also
\* when the buffer ends inside a varint, its last byte having the continuation bit set.
C28_NoReadPastBuffer ==
    pc = "bytes_decoded" =>
        \A function \in VarintReaders :
            \A i \in Reads(function, nbuf) : i < Len(nbuf)

\* the call has returned or thrown
LoopDone == pc \in {"loop_returned", "loop_threw"}

\* C29: T.decode ends on every buffer, well-formed or not. Every iteration the loop is
\* about to run either throws or moves the index forward by at least one byte and never
\* past the end of the buffer, so that the loop runs at most Len(wire) times; the value
\* it hands to the decoder, on which a nested decode runs, is shorter than what remained
\* of the buffer; and the call that ends the loop returns what T.decode returns, or
\* throws when T.decode throws.
C29_DecodeTerminates ==
    /\ pc = "loop" /\ written < Len(wire) /\ ~Iteration(wire, written).err =>
           /\ Iteration(wire, written).next > written
           /\ Iteration(wire, written).next <= Len(wire)
           /\ Len(Iteration(wire, written).value) < Len(wire) - written
    /\ pc \in {"loop", "loop_returned", "loop_threw"} => written <= Len(wire)
    /\ LoopDone => (copy.err <=> Decode(kind, wire).err)
    /\ pc = "loop_returned" => written = Len(wire) /\ copy = Decode(kind, wire)

\* a Profile decoded in two iterations, the first of which ran a nested decode
C29_Witness ==
    /\ pc = "loop_returned"
    /\ kind = "Profile"
    /\ wire = Frame(<<RawField(1, 2, <<8, 1, 16, 2>>), RawField(7, 0, <<5>>)>>)
    /\ written = Len(wire)
    /\ Len(copy.data.sampleType) = 1

\* the table has cached the encoded bytes of each of its entries
CachesEveryEntry(tbl) ==
    \A i \in 1..Len(tbl.strings) :
        /\ MapHas(tbl.encodings, tbl.strings[i])
        /\ MapGet(tbl.encodings, tbl.strings[i]) = StringField(tbl.strings[i])

\* C30: the Profile D decoded from the bytes P.encode() returned measures what P
\* measures and encodes to the same bytes, and the string table of D has cached the
\* encoded bytes of every one of its entries.
C30_ReencodeStable ==
    pc = "decoded" /\ kind = "Profile" =>
        /\ ~copy.err
        /\ Length(copy.data) = Length(msg)
        /\ ~Encode(copy.data).err
        /\ Encode(copy.data).bytes = wire
        /\ CachesEveryEntry(copy.data.stringTable)

====
